---- MODULE Spec2Model ----
(***************************************************************************)
(* A model of scripts/youtube-agent/youtube_agent.py: the retry loop of    *)
(* call_gemini, the two-pass orchestration of analyze_transcript, the name *)
(* resolution of lookup_hash / get_valid_perks_for_weapon, the expansion   *)
(* of convert_to_dim_format and the main loop over the videos.             *)
(*                                                                         *)
(* Python values are tagged records:                                       *)
(*   [t |-> "null"]                 None / JSON null                       *)
(*   [t |-> "str",  s  |-> "..."]   a str used as a name (atomic token)    *)
(*   [t |-> "text", cs |-> <<..>>]  a str used as free text (characters)   *)
(*   [t |-> "num",  n  |-> 7]       a number                               *)
(*   [t |-> "list", xs |-> <<..>>]  a list                                 *)
(*   [t |-> "obj",  f  |-> [k |-> v, ...]]  a dict                         *)
(* and a key that is missing from a dict is simply not in DOMAIN f.        *)
(***************************************************************************)
EXTENDS Integers, Sequences, FiniteSets, TLC

VARIABLES
    \* ---- configuration loaded at import time (lines 19-24, 49-52)
    HAS_FUZZY,        \* rapidfuzz importable
    poolsLoaded,      \* weapon_perk_pools.json and perk_names.json present
    \* ---- the run's inputs
    videos,           \* per video: what get_transcript_with_ytdlp returns
    start_index,
    \* ---- __main__ (lines 764-845)
    pc,               \* position of the single thread of control
    i,                \* index of the video of the for loop, 0-based
    all_uncertain,
    all_raw_rolls,
    raw_response,     \* what analyze_transcript returned
    disk,             \* content of dim_filename on durable storage
    sleeps,           \* number of time.sleep(10) taken by the main loop
    \* ---- analyze_transcript (lines 415-494)
    weapons,          \* parsed pass-1 response
    j,                \* index of the pass-2 candidate, 1-based
    all_rolls,
    \* ---- call_gemini (lines 393-412)
    callKind,         \* which call site is waiting for call_gemini
    prompt,           \* the prompt of the call in progress
    attempt,          \* the loop variable of call_gemini
    waited,           \* seconds slept by the call in progress
    response,         \* what the last call_gemini returned
    transcript,       \* what get_transcript_with_ytdlp returned for video i
    \* ---- history (not program state)
    invocations,      \* number of provider invocations of the call in progress
    lastOutcome,      \* outcome of the latest provider invocation
    calls,            \* call sites of the call_gemini calls for the current video
    failedCalls,      \* videos one of whose calls returned a sentinel or unparseable text
    notFoundSeen,     \* a pass-2 call for this transcript returned the not-found sentinel
    crashSite,        \* where an uncaught exception ended the run
    \* ---- convert_to_dim_format applied to one input (SpecConv)
    convIn,
    convOut

runVars == <<videos, start_index, pc, i, all_uncertain, all_raw_rolls, raw_response,
             disk, sleeps, weapons, j, all_rolls, callKind, prompt, attempt, waited,
             response, transcript, invocations, lastOutcome, calls, failedCalls, notFoundSeen,
             crashSite>>
cfgVars == <<HAS_FUZZY, poolsLoaded>>
convVars == <<convIn, convOut>>
vars == <<cfgVars, runVars, convVars>>

-----------------------------------------------------------------------------
(* Python values *)

None == [t |-> "null"]
JStr(s) == [t |-> "str", s |-> s]
JText(cs) == [t |-> "text", cs |-> cs]
JNum(n) == [t |-> "num", n |-> n]
JList(xs) == [t |-> "list", xs |-> xs]
JObj(f) == [t |-> "obj", f |-> f]

\* bool(v)
Truthy(v) ==
    CASE v.t = "null" -> FALSE
      [] v.t = "str"  -> v.s # ""
      [] v.t = "text" -> v.cs # <<>>
      [] v.t = "num"  -> v.n # 0
      [] v.t = "list" -> v.xs # <<>>
      [] v.t = "obj"  -> DOMAIN v.f # {}

\* isinstance(v, str): names are "str" tokens, free text is "text"
IsStr(v) == v.t \in {"str", "text"}

\* d.get(key, default)
Get(d, key, default) == IF key \in DOMAIN d.f THEN d.f[key] ELSE default

RECURSIVE SeqSum(_)
SeqSum(s) == IF s = <<>> THEN 0 ELSE Head(s) + SeqSum(Tail(s))

RECURSIVE Flatten(_)
Flatten(ss) == IF ss = <<>> THEN <<>> ELSE Head(ss) \o Flatten(Tail(ss))

Range(s) == {s[n] : n \in DOMAIN s}

\* the sequences over S of length at most n
BoundedSeq(S, n) == UNION {[1..k -> S] : k \in 0..n}

-----------------------------------------------------------------------------
(* Lookup data: the JSON tables of lines 49-52, as a small fixture *)

\* weapon_lookup.json: lower-cased name -> hash
WEAPON_LOOKUP ==
    [k \in {"solemn remembrance", "the martlet"} |->
        IF k = "solemn remembrance" THEN 101 ELSE 102]

\* perk_lookup.json: lower-cased name -> hash
PERK_LOOKUP ==
    [k \in {"headstone", "firefly", "demolitionist", "arrowhead brake",
             "accurized rounds"} |->
        CASE k = "headstone" -> 11
          [] k = "firefly" -> 12
          [] k = "demolitionist" -> 13
          [] k = "arrowhead brake" -> 14
          [] k = "accurized rounds" -> 15]

\* the order in which a dict of the fixture yields its keys
WeaponKeyOrder == <<"solemn remembrance", "the martlet">>
PerkKeyOrder ==
    <<"headstone", "firefly", "demolitionist", "arrowhead brake", "accurized rounds">>
KeyOrder(lookup_dict) ==
    IF DOMAIN lookup_dict = DOMAIN WEAPON_LOOKUP THEN WeaponKeyOrder
    ELSE IF DOMAIN lookup_dict = DOMAIN PERK_LOOKUP THEN PerkKeyOrder
    ELSE <<>>

\* perk_names.json: hash -> display name (hash 99 has no name)
PerkNameData ==
    [h \in {11, 12, 13, 14, 15} |->
        CASE h = 11 -> "Headstone"
          [] h = 12 -> "Firefly"
          [] h = 13 -> "Demolitionist"
          [] h = 14 -> "Arrowhead Brake"
          [] h = 15 -> "Accurized Rounds"]

\* weapon_perk_pools.json: weapon hash -> pool
PoolData ==
    [h \in {101, 103} |->
        IF h = 101
        THEN [name |-> "Solemn Remembrance",
              barrels |-> <<14>>,
              magazines |-> <<>>,
              trait1 |-> <<11, 99, 13>>,
              trait2 |-> <<12>>,
              origin |-> <<>>]
        ELSE [name |-> "Mystery Gun",
              barrels |-> <<>>,
              magazines |-> <<15, 98>>,
              trait1 |-> <<12, 12>>,
              trait2 |-> <<97>>,
              origin |-> <<>>]]

PoolOrder == <<101, 103>>

WEAPON_PERK_POOLS == IF poolsLoaded THEN PoolData ELSE <<>>
PERK_NAMES == IF poolsLoaded THEN PerkNameData ELSE <<>>

\* str.lower().strip() on the names of the fixture
Lower(s) ==
    CASE s = "Solemn Remembrance" -> "solemn remembrance"
      [] s = "SOLEMN REMEMBRANCE" -> "solemn remembrance"
      [] s = "Solemn Remembrence" -> "solemn remembrence"
      [] s = " Solemn Remembrance " -> "solemn remembrance"
      [] s = "mystery gun " -> "mystery gun"
      [] s = "The Martlet" -> "the martlet"
      [] s = "THE MARTLET" -> "the martlet"
      [] s = "Mystery Gun" -> "mystery gun"
      [] s = "Headstone" -> "headstone"
      [] s = " Headstone " -> "headstone"
      [] s = "Head Stone" -> "head stone"
      [] s = "Firefly" -> "firefly"
      [] s = "Demolitionist" -> "demolitionist"
      [] s = "Arrowhead Brake" -> "arrowhead brake"
      [] s = "Accurized Rounds" -> "accurized rounds"
      [] s = "Bogus Perk" -> "bogus perk"
      [] s = " " -> ""
      [] OTHER -> s

\* str.lower() alone (line 185, line 462): no strip
LowerOnly(s) ==
    IF s = " Headstone " THEN " headstone "
    ELSE IF s = " Solemn Remembrance " THEN " solemn remembrance "
    ELSE IF s = "mystery gun " THEN "mystery gun "
    ELSE Lower(s)

\* fuzz.token_sort_ratio(a, b) of rapidfuzz on the names of the fixture,
\* rounded down: 100 * 2 * LCS / (len(a) + len(b)) of the token-sorted strings
token_sort_ratio(a, b) ==
    CASE a = b -> 100
      [] a = "" -> 0
      [] a = "solemn remembrence" /\ b = "solemn remembrance" -> 94
      [] a = "head stone" /\ b = "headstone" -> 94
      [] a = "head stone" /\ b = "arrowhead brake" -> 48
      [] a = "head stone" /\ b = "demolitionist" -> 34
      [] a = "head stone" /\ b = "firefly" -> 11
      [] a = "head stone" /\ b = "accurized rounds" -> 38
      [] a = "bogus perk" /\ b = "arrowhead brake" -> 32
      [] a = "bogus perk" /\ b = "headstone" -> 21
      [] a = "bogus perk" /\ b = "demolitionist" -> 17
      [] a = "bogus perk" /\ b = "firefly" -> 11
      [] a = "bogus perk" /\ b = "accurized rounds" -> 23
      [] a = "mystery gun" -> 27
      [] b = "the martlet" -> 34
      [] a = "the martlet" -> 34
      [] OTHER -> 30

-----------------------------------------------------------------------------
(* Identifier Resolver: lookup_hash, lines 510-528 *)

\* None as the hash of a lookup that found nothing; every test of a hash in
\* the code is a truth test (lines 648, 663), which 0 fails like None does
NoHash == 0

\* process.extractOne(query, choices, scorer=fuzz.token_sort_ratio): the
\* first choice with the highest score, or nothing when there is no choice
RECURSIVE BestIndex(_, _, _, _)
BestIndex(query, choices, n, best) ==
    IF n > Len(choices) THEN best
    ELSE IF best = 0
            \/ token_sort_ratio(query, choices[n]) > token_sort_ratio(query, choices[best])
         THEN BestIndex(query, choices, n + 1, n)
         ELSE BestIndex(query, choices, n + 1, best)

ExtractResult(query, choices, b) ==
    IF b = 0 THEN [found |-> FALSE, choice |-> "", score |-> 0]
    ELSE [found |-> TRUE, choice |-> choices[b],
          score |-> token_sort_ratio(query, choices[b])]

extractOne(query, choices) ==
    ExtractResult(query, choices, BestIndex(query, choices, 1, 0))

DefaultThreshold == 75

\* lines 522-528: the fuzzy match, given the result of extractOne
\* line 524 with > in place of >=
FuzzyMatchAbove(result, lookup_dict, threshold) ==
    IF HAS_FUZZY /\ DOMAIN lookup_dict # {}
       /\ result.found /\ result.score > threshold
    THEN [h |-> lookup_dict[result.choice], exact |-> FALSE, raised |-> FALSE]
    ELSE [h |-> NoHash, exact |-> FALSE, raised |-> FALSE]

FuzzyMatch(result, lookup_dict, threshold) ==
    IF HAS_FUZZY /\ DOMAIN lookup_dict # {}
       /\ result.found /\ result.score >= threshold
    THEN [h |-> lookup_dict[result.choice], exact |-> FALSE, raised |-> FALSE]
    ELSE [h |-> NoHash, exact |-> FALSE, raised |-> FALSE]

\* lines 517-528, given name.lower().strip()
LookupLower(name_lower, lookup_dict, threshold) ==
    IF name_lower \in DOMAIN lookup_dict
    THEN [h |-> lookup_dict[name_lower], exact |-> TRUE, raised |-> FALSE]
    ELSE FuzzyMatch(extractOne(name_lower, KeyOrder(lookup_dict)), lookup_dict,
                    threshold)

\* returns (hash, exact); raised is an AttributeError of name.lower()
lookup_hash(name, lookup_dict, threshold) ==
    IF ~Truthy(name) THEN [h |-> NoHash, exact |-> FALSE, raised |-> FALSE]
    ELSE IF ~IsStr(name) THEN [h |-> NoHash, exact |-> FALSE, raised |-> TRUE]
    ELSE LookupLower(Lower(name.s), lookup_dict, threshold)

-----------------------------------------------------------------------------
(* Perk Pool Index: get_valid_perks_for_weapon, lines 176-227 *)

\* lines 187-193 without the test of line 191
hashes_to_names_all(hash_list) ==
    [n \in DOMAIN hash_list |->
        IF hash_list[n] \in DOMAIN PERK_NAMES THEN PERK_NAMES[hash_list[n]]
        ELSE "Unknown Perk"]

\* hashes_to_names, lines 187-193 and 211-217
RECURSIVE hashes_to_names(_)
hashes_to_names(hash_list) ==
    IF hash_list = <<>> THEN <<>>
    ELSE (IF Head(hash_list) \in DOMAIN PERK_NAMES /\ PERK_NAMES[Head(hash_list)] # ""
          THEN <<PERK_NAMES[Head(hash_list)]>> ELSE <<>>)
         \o hashes_to_names(Tail(hash_list))

PoolNames(pool) ==
    [found |-> TRUE,
     barrels |-> hashes_to_names(pool.barrels),
     magazines |-> hashes_to_names(pool.magazines),
     trait1 |-> hashes_to_names(pool.trait1),
     trait2 |-> hashes_to_names(pool.trait2),
     origin |-> hashes_to_names(pool.origin)]

NoPool ==
    [found |-> FALSE, barrels |-> <<>>, magazines |-> <<>>, trait1 |-> <<>>,
     trait2 |-> <<>>, origin |-> <<>>]

\* the pools in the order WEAPON_PERK_POOLS.items() yields them
LoadedPoolOrder == IF poolsLoaded THEN PoolOrder ELSE <<>>

get_valid_perks_for_weapon(weapon_name) ==
    IF DOMAIN WEAPON_PERK_POOLS = {} \/ DOMAIN PERK_NAMES = {} THEN NoPool
    ELSE
      LET weapon_name_lower == Lower(weapon_name)
          hits == SelectSeq(LoadedPoolOrder,
                     LAMBDA h : LowerOnly(WEAPON_PERK_POOLS[h].name) = weapon_name_lower)
          pool_names == [n \in DOMAIN LoadedPoolOrder |->
                            LowerOnly(WEAPON_PERK_POOLS[LoadedPoolOrder[n]].name)]
          result == extractOne(weapon_name_lower, pool_names)
          matched == SelectSeq(LoadedPoolOrder,
                     LAMBDA h : LowerOnly(WEAPON_PERK_POOLS[h].name) = result.choice)
      IN  IF hits # <<>> THEN PoolNames(WEAPON_PERK_POOLS[Head(hits)])
          ELSE IF HAS_FUZZY /\ result.found /\ result.score >= 75
          \* pool_names is a dict keyed by name: the last pool of a name wins
          THEN PoolNames(WEAPON_PERK_POOLS[matched[Len(matched)]])
          ELSE NoPool

-----------------------------------------------------------------------------
(* Text returned by call_gemini, and parse_gemini_response, lines 496-508 *)

\* the provider's text: JSON (possibly inside a ``` fence) or anything else
JsonText(v) == [k |-> "json", fenced |-> FALSE, v |-> v]
FencedJsonText(v) == [k |-> "json", fenced |-> TRUE, v |-> v]
GarbageText == [k |-> "garbage"]
\* the three sentinels of call_gemini, lines 409, 411, 412
NotFoundSentinel == [k |-> "notfound"]
ErrorSentinel == [k |-> "error"]
ExhaustedSentinel == [k |-> "exhausted"]
Sentinels == {NotFoundSentinel, ErrorSentinel, ExhaustedSentinel}
\* no text: the variable holds nothing yet, or its function has returned
NoText == [k |-> "none"]

\* raw_response.startswith("X") or raw_response.startswith("!"), line 799
StartsWithMarker(text) == text \in Sentinels

\* json.dumps(value)
json_dumps(v) == JsonText(v)

\* strip, remove the fence markers, json.loads; None on JSONDecodeError
parse_gemini_response(response_text) ==
    IF response_text.k = "json" THEN response_text.v ELSE None

-----------------------------------------------------------------------------
(* Roll-to-Wishlist Compiler: convert_to_dim_format, lines 616-710 *)

\* the lines of the wishlist text
TitleLine(name) == [k |-> "title", name |-> name]
DescriptionLine(text) == [k |-> "description", text |-> text]
BlankLine == [k |-> "blank"]
\* //notes:{weapon_name} - {mode}[ @ {timestamp}], lines 688-691
BlockComment(weapon_name, mode, timestamp) ==
    [k |-> "notes", weapon |-> weapon_name, mode |-> mode,
     timestamp |-> IF Truthy(timestamp) THEN timestamp ELSE None]
\* dimwishlist:item={weapon_hash}&perks={perks_str}#notes:{short_note}|tags:{tags_str}
DimLine(weapon_hash, perk_hashes, short_note, tags) ==
    [k |-> "dimwishlist", item |-> weapon_hash, perks |-> perk_hashes,
     note |-> short_note, tags |-> tags]

\* the review items of lines 649, 653, 666, 668
UnknownWeapon(name) == [k |-> "unknown weapon", name |-> name]
FuzzyWeapon(name) == [k |-> "fuzzy weapon", name |-> name]
FuzzyPerk(name) == [k |-> "fuzzy perk", name |-> name]
UnknownPerk(name) == [k |-> "unknown perk", name |-> name]

-----------------------------------------------------------------------------
(* The text of the wishlist.  A text is a sequence of characters; a name of
   the fixtures (a weapon, a mode, the wishlist's title) is one element of it,
   and no such name holds a line break or one of the format's delimiters. *)

Digits == <<"0", "1", "2", "3", "4", "5", "6", "7", "8", "9">>

\* str(h) of a natural number
RECURSIVE IntStr(_)
IntStr(n) ==
    IF n < 10 THEN <<Digits[n + 1]>>
    ELSE IntStr(n \div 10) \o <<Digits[(n % 10) + 1]>>

\* sep.join(parts)
RECURSIVE Join(_, _)
Join(sep, parts) ==
    IF parts = <<>> THEN <<>>
    ELSE IF Len(parts) = 1 THEN parts[1]
    ELSE parts[1] \o sep \o Join(sep, Tail(parts))

\* a value inside an f-string
Fmt(v) ==
    CASE v.t = "text" -> v.cs
      [] v.t = "str" -> <<v.s>>
      [] v.t = "num" -> IntStr(v.n)
      [] v.t = "null" -> <<"N", "o", "n", "e">>
      [] OTHER -> <<"<repr>">>

TagText(tag) ==
    IF tag = "pve" THEN <<"p", "v", "e">> ELSE <<"p", "v", "p">>

TitlePrefix == <<"t", "i", "t", "l", "e", ":">>
DescriptionPrefix == <<"d", "e", "s", "c", "r", "i", "p", "t", "i", "o", "n", ":">>
CommentPrefix == <<"/", "/", "n", "o", "t", "e", "s", ":">>
ItemPrefix ==
    <<"d", "i", "m", "w", "i", "s", "h", "l", "i", "s", "t", ":", "i", "t", "e", "m", "=">>
PerksDelimiter == <<"&", "p", "e", "r", "k", "s", "=">>
NotesDelimiter == <<"#", "n", "o", "t", "e", "s", ":">>
TagsDelimiter == <<"|", "t", "a", "g", "s", ":">>

\* the f-strings of lines 636, 637, 688-690 and 705
LineText(l) ==
    CASE l.k = "title" -> TitlePrefix \o <<l.name>>
      [] l.k = "description" -> DescriptionPrefix \o <<l.text>>
      [] l.k = "blank" -> <<>>
      [] l.k = "notes" ->
            CommentPrefix \o Fmt(l.weapon) \o <<" ", "-", " ">> \o Fmt(l.mode)
            \o (IF l.timestamp = None THEN <<>>
                ELSE <<" ", "@", " ">> \o Fmt(l.timestamp))
      [] l.k = "dimwishlist" ->
            ItemPrefix \o IntStr(l.item)
            \o PerksDelimiter
            \o Join(<<",">>, [n \in DOMAIN l.perks |-> IntStr(l.perks[n])])
            \o NotesDelimiter \o l.note
            \o TagsDelimiter
            \o Join(<<",">>, [n \in DOMAIN l.tags |-> TagText(l.tags[n])])

\* line 710: "\n".join(lines)
dim_text(lines) == Join(<<"\n">>, [n \in DOMAIN lines |-> LineText(lines[n])])

ColumnKeys == <<"barrel", "magazine", "trait1", "trait2">>

\* the (None, None) of line 669
Placeholder == [h |-> NoHash, name |-> None]

Raised == [raised |-> TRUE, lines |-> <<>>, uncertain |-> <<>>]

\* lines 661-668 without the review item of line 668
ResolvePerkQuiet(perk, r, rest) ==
    IF ~Truthy(perk) \/ perk = JStr("null") THEN rest
    ELSE IF r.raised \/ rest.raised
    THEN [raised |-> TRUE, perks |-> <<>>, uncertain |-> <<>>]
    ELSE IF r.h # NoHash
    THEN [raised |-> FALSE,
          perks |-> <<[h |-> r.h, name |-> perk]>> \o rest.perks,
          uncertain |-> (IF r.exact THEN <<>> ELSE <<FuzzyPerk(perk)>>)
                        \o rest.uncertain]
    ELSE [raised |-> FALSE, perks |-> rest.perks, uncertain |-> rest.uncertain]

\* lines 661-668 for one perk whose lookup gave r, before the rest of the column
ResolvePerk(perk, r, rest) ==
    IF ~Truthy(perk) \/ perk = JStr("null") THEN rest
    ELSE IF r.raised \/ rest.raised
    THEN [raised |-> TRUE, perks |-> <<>>, uncertain |-> <<>>]
    ELSE IF r.h # NoHash
    THEN [raised |-> FALSE,
          perks |-> <<[h |-> r.h, name |-> perk]>> \o rest.perks,
          uncertain |-> (IF r.exact THEN <<>> ELSE <<FuzzyPerk(perk)>>)
                        \o rest.uncertain]
    ELSE [raised |-> FALSE, perks |-> rest.perks,
          uncertain |-> <<UnknownPerk(perk)>> \o rest.uncertain]

\* lines 660-668 for the perks of one column, from the n-th on
RECURSIVE ResolvePerks(_, _)
ResolvePerks(perks, n) ==
    IF n > Len(perks) THEN [raised |-> FALSE, perks |-> <<>>, uncertain |-> <<>>]
    ELSE ResolvePerk(perks[n], lookup_hash(perks[n], PERK_LOOKUP, DefaultThreshold),
                     ResolvePerks(perks, n + 1))

\* lines 659-669 for one column of value v: "v or []" is iterated.
\* A number is not iterable (TypeError).  Columns that are a str or a dict
\* (iterated by character or by key) are outside the inputs of this model.
ResolveValue(v) ==
    IF ~Truthy(v) THEN [raised |-> FALSE, perks |-> <<>>, uncertain |-> <<>>]
    ELSE IF v.t = "list" THEN ResolvePerks(v.xs, 1)
    ELSE [raised |-> TRUE, perks |-> <<>>, uncertain |-> <<>>]

ResolveColumn(roll, column_key) == ResolveValue(Get(roll, column_key, None))

\* line 669 without its placeholder
ColumnNoPlaceholder(column_perks) == column_perks

\* line 669
ColumnOrPlaceholder(column_perks) ==
    IF column_perks # <<>> THEN column_perks ELSE <<Placeholder>>

\* lines 672-677
TagsOfMode(mode) ==
    (IF mode \in {JStr("PvE"), JStr("Both")} THEN <<"pve">> ELSE <<>>)
    \o (IF mode \in {JStr("PvP"), JStr("Both")} THEN <<"pvp">> ELSE <<>>)

\* line 703 without its default
TagsAsBuilt(tags) == tags

\* line 703
TagsStr(tags) == IF tags # <<>> THEN tags ELSE <<"pve">>

NoteLimit == 100

\* lines 684-685 without replace('|', '-')
ShortNoteKeepBar(reasoning) ==
    LET cut == IF Len(reasoning) > NoteLimit
               THEN SubSeq(reasoning, 1, NoteLimit) \o <<".", ".", ".">>
               ELSE reasoning
    IN  [n \in DOMAIN cut |-> IF cut[n] = "\n" THEN " " ELSE cut[n]]

\* lines 684-685 with >= for > in the test of the length
ShortNoteAtLimit(reasoning) ==
    LET cut == IF Len(reasoning) >= NoteLimit
               THEN SubSeq(reasoning, 1, NoteLimit) \o <<".", ".", ".">>
               ELSE reasoning
    IN  [n \in DOMAIN cut |->
            IF cut[n] = "\n" THEN " " ELSE IF cut[n] = "|" THEN "-" ELSE cut[n]]

\* lines 684-685
ShortNote(reasoning) ==
    LET cut == IF Len(reasoning) > NoteLimit
               THEN SubSeq(reasoning, 1, NoteLimit) \o <<".", ".", ".">>
               ELSE reasoning
    IN  [n \in DOMAIN cut |->
            IF cut[n] = "\n" THEN " " ELSE IF cut[n] = "|" THEN "-" ELSE cut[n]]

\* itertools.product with the first column varying fastest
ProductFirstFastest(columns) ==
    LET L1 == Len(columns[1])
        L2 == Len(columns[2])
        L3 == Len(columns[3])
        L4 == Len(columns[4])
    IN  [n \in 1..(L1 * L2 * L3 * L4) |->
            <<columns[1][((n - 1) % L1) + 1],
              columns[2][(((n - 1) \div L1) % L2) + 1],
              columns[3][(((n - 1) \div (L1 * L2)) % L3) + 1],
              columns[4][(((n - 1) \div (L1 * L2 * L3)) % L4) + 1]>>]

\* itertools.product(*columns) of four columns: the last column varies fastest
Product(columns) ==
    LET L1 == Len(columns[1])
        L2 == Len(columns[2])
        L3 == Len(columns[3])
        L4 == Len(columns[4])
    IN  [n \in 1..(L1 * L2 * L3 * L4) |->
            <<columns[1][(((n - 1) \div (L2 * L3 * L4)) % L1) + 1],
              columns[2][(((n - 1) \div (L3 * L4)) % L2) + 1],
              columns[3][(((n - 1) \div L4) % L3) + 1],
              columns[4][((n - 1) % L4) + 1]>>]

\* line 696
PerkHashes(combo) ==
    LET kept == SelectSeq(combo, LAMBDA c : c # Placeholder)
    IN  [n \in DOMAIN kept |-> kept[n].h]

\* lines 694-706: one line per combination that names a perk
ComboLines(weapon_hash, columns, short_note, tags) ==
    LET combos == Product(columns)
        named == SelectSeq(combos, LAMBDA combo : PerkHashes(combo) # <<>>)
    IN  [n \in DOMAIN named |->
            DimLine(weapon_hash, PerkHashes(named[n]), short_note, TagsStr(tags))]

\* lines 648-650 moved below the resolution of the perks
SkipUnknownWeaponLate(weapon_name, cols) ==
    [raised |-> FALSE, lines |-> <<>>,
     uncertain |-> <<UnknownWeapon(weapon_name)>>
                   \o Flatten([n \in 1..4 |-> cols[n].uncertain])]

\* lines 648-650: the record is skipped before any of its perks is looked at
SkipUnknownWeapon(weapon_name, cols) ==
    [raised |-> FALSE, lines |-> <<>>, uncertain |-> <<UnknownWeapon(weapon_name)>>]

\* lines 652-708 for a roll whose weapon resolved to w
EmitRoll(weapon_name, w, cols, mode, reasoning, timestamp) ==
    IF \E n \in 1..4 : cols[n].raised THEN Raised
    ELSE IF reasoning.t # "text" THEN Raised        \* len(None), list.replace
    ELSE [raised |-> FALSE,
          lines |-> <<BlockComment(weapon_name, mode, timestamp)>>
                    \o ComboLines(w.h, [n \in 1..4 |-> ColumnOrPlaceholder(cols[n].perks)],
                                  ShortNote(reasoning.cs), TagsOfMode(mode))
                    \o <<BlankLine>>,
          uncertain |-> (IF w.exact THEN <<>> ELSE <<FuzzyWeapon(weapon_name)>>)
                        \o Flatten([n \in 1..4 |-> cols[n].uncertain])]

\* lines 645-708 for a roll that is a dict, w being the lookup of its weapon
\* and cols the resolution of its four columns
ConvertDict(roll, weapon_name, w, cols) ==
    IF w.raised THEN Raised
    ELSE IF w.h = NoHash THEN SkipUnknownWeapon(weapon_name, cols)
    ELSE EmitRoll(weapon_name, w, cols, Get(roll, "mode", JStr("Both")),
                  Get(roll, "reasoning", JText(<<>>)), Get(roll, "timestamp", JStr("")))

\* lines 645-708 for one roll
ConvertRoll(roll) ==
    IF roll.t # "obj" THEN Raised                    \* roll.get: AttributeError
    ELSE ConvertDict(roll, Get(roll, "weapon", JStr("")),
                     lookup_hash(Get(roll, "weapon", JStr("")), WEAPON_LOOKUP,
                                 DefaultThreshold),
                     [n \in 1..4 |-> ResolveColumn(roll, ColumnKeys[n])])

\* the outputs of several rolls (or items), one after the other
JoinOuts(outs) ==
    IF \E n \in DOMAIN outs : outs[n].raised THEN Raised
    ELSE [raised |-> FALSE,
          lines |-> Flatten([n \in DOMAIN outs |-> outs[n].lines]),
          uncertain |-> Flatten([n \in DOMAIN outs |-> outs[n].uncertain])]

\* for roll in item['rolls']: a list yields its elements; a non-empty dict
\* yields its keys and a str its characters, on which roll.get raises
ConvertItem(item) ==
    IF item.rolls.t = "list"
    THEN JoinOuts([n \in DOMAIN item.rolls.xs |-> ConvertRoll(item.rolls.xs[n])])
    ELSE IF Truthy(item.rolls) THEN Raised
    ELSE [raised |-> FALSE, lines |-> <<>>, uncertain |-> <<>>]

\* lines 636-638 before the lines of the rolls
WithHeader(out, wishlist_name, description) ==
    IF out.raised THEN Raised
    ELSE [raised |-> FALSE,
          lines |-> <<TitleLine(wishlist_name), DescriptionLine(description),
                      BlankLine>> \o out.lines,
          text |-> dim_text(<<TitleLine(wishlist_name), DescriptionLine(description),
                              BlankLine>> \o out.lines),
          uncertain |-> out.uncertain]

\* returns (dim_text_content, uncertain), or raises
convert_to_dim_format(raw_rolls, wishlist_name, description) ==
    WithHeader(JoinOuts([n \in DOMAIN raw_rolls |-> ConvertItem(raw_rolls[n])]),
               wishlist_name, description)

-----------------------------------------------------------------------------
(* What the outside world can answer *)

NumVideos == 2

\* get_transcript_with_ytdlp: None, an empty text, or a cleaned transcript
Transcripts == {None, JText(<<>>), JText(<<"t">>)}

Reasoning == JText(<<"w", "h", "y">>)

CandSolemn == JObj([weapon |-> JStr("Solemn Remembrance"), mode |-> JStr("PvE")])
CandMartlet == JObj([weapon |-> JStr("The Martlet"), mode |-> JStr("PvP")])
CandNoName == JObj([mode |-> JStr("PvE")])
CandNullName == JObj([weapon |-> None, mode |-> JStr("PvE")])

GoodRoll ==
    JObj([weapon |-> JStr("Solemn Remembrance"), mode |-> JStr("PvE"),
          barrel |-> None, magazine |-> None,
          trait1 |-> JList(<<JStr("Headstone")>>),
          trait2 |-> JList(<<JStr("Firefly")>>),
          reasoning |-> Reasoning, timestamp |-> JStr("01:23")])
\* names a perk that is not in the pool of the weapon
HallucinatedRoll ==
    JObj([weapon |-> JStr("Solemn Remembrance"), mode |-> JStr("PvE"),
          trait1 |-> JList(<<JStr("Bogus Perk")>>),
          trait2 |-> JList(<<JStr("Firefly")>>),
          reasoning |-> Reasoning])
NullReasoningRoll ==
    JObj([weapon |-> JStr("Solemn Remembrance"), mode |-> JStr("Both"),
          trait1 |-> JList(<<JStr("Headstone")>>),
          reasoning |-> None])
MartletRoll ==
    JObj([weapon |-> JStr("THE MARTLET"), mode |-> JStr("PvP"),
          trait2 |-> JList(<<JStr("Firefly")>>),
          reasoning |-> Reasoning])
MysteryRoll ==
    JObj([weapon |-> JStr("Mystery Gun"), mode |-> JStr("PvP"),
          trait1 |-> JList(<<JStr("Headstone")>>),
          reasoning |-> Reasoning])

\* answers to WEAPON_EXTRACT_PROMPT
WeaponExtractTexts ==
    {JsonText(JList(<<CandSolemn>>)),
     FencedJsonText(JList(<<CandSolemn, CandMartlet>>)),
     JsonText(JList(<<CandNoName, CandMartlet>>)),
     JsonText(JList(<<>>)),
     GarbageText,
     JsonText(CandSolemn),
     JsonText(JList(<<CandNullName>>))}

\* answers to CONSTRAINED_ROLL_PROMPT
ConstrainedTexts ==
    {JsonText(GoodRoll),
     JsonText(HallucinatedRoll),
     FencedJsonText(JList(<<GoodRoll, NullReasoningRoll>>)),
     JsonText(JList(<<>>)),
     JsonText(JNum(7)),
     GarbageText}

\* answers to GOD_ROLL_PROMPT
GodRollTexts ==
    {JsonText(JList(<<GoodRoll>>)),
     JsonText(JList(<<MartletRoll, MysteryRoll>>)),
     JsonText(JList(<<>>)),
     JsonText(GoodRoll),
     JsonText(JNum(7)),
     GarbageText}

ModelTexts(p) ==
    CASE p.kind = "weapon_extract" -> WeaponExtractTexts
      [] p.kind = "constrained" -> ConstrainedTexts
      [] p.kind = "god_roll" -> GodRollTexts

\* str(e) of a failed generate_content, by the markers it contains
ErrorMarkers ==
    {{}, {"429"}, {"RESOURCE_EXHAUSTED"}, {"404"}, {"429", "404"}}

NoPrompt == [kind |-> "none"]
NoOutcome == [kind |-> "none"]
OkOutcome == [kind |-> "ok"]
ErrorOutcome(m) == [kind |-> "error", markers |-> m]

-----------------------------------------------------------------------------
(* Extraction Client: call_gemini, lines 393-412 *)

max_retries == 5
base_wait == 15

\* line 404 taking every failure for a rate limit
IsAnyError(error_str) == TRUE

\* line 404
IsRateLimit(error_str) == "429" \in error_str \/ "RESOURCE_EXHAUSTED" \in error_str
\* line 408
IsNotFound(error_str) == ~IsRateLimit(error_str) /\ "404" \in error_str

\* line 405
\* line 405 without the attempt number
wait_time_flat(n) == base_wait

wait_time(n) == base_wait * (n + 1)

IsFailedText(text) == text \in Sentinels \/ text = GarbageText

\* entering call_gemini(prompt) from a call site
StartCall(site, p) ==
    /\ pc' = "call"
    /\ callKind' = site
    /\ prompt' = p
    /\ attempt' = 0
    /\ waited' = 0
    /\ invocations' = 0
    /\ lastOutcome' = NoOutcome
    /\ response' = NoText

\* call_gemini has returned and its caller has taken the response
EndCall ==
    /\ callKind' = "none"
    /\ prompt' = NoPrompt
    /\ attempt' = 0
    /\ waited' = 0
    /\ invocations' = 0
    /\ lastOutcome' = NoOutcome
    /\ response' = NoText

\* the return statements of lines 401, 409, 411, 412
ReturnText(text) ==
    /\ pc' = "ret"
    /\ response' = text
    /\ failedCalls' = IF IsFailedText(text) THEN failedCalls \cup {i} ELSE failedCalls
    /\ notFoundSeen' = (\/ notFoundSeen
                        \/ callKind \in {"pass2", "miss"} /\ text = NotFoundSentinel)
    /\ UNCHANGED <<attempt, waited>>

\* lines 408-411 without the branch of line 408
ReturnErrorOnly(error_str) == ReturnText(ErrorSentinel)

\* lines 408-411: a failure that is no rate limit ends the call
ReturnError(error_str) ==
    IF "404" \in error_str
    THEN ReturnText(NotFoundSentinel)
    ELSE ReturnText(ErrorSentinel)

callerVars == <<videos, start_index, i, all_uncertain, all_raw_rolls, raw_response, disk,
                sleeps, weapons, j, all_rolls, transcript, calls, crashSite>>

\* one iteration of the for loop: generate_content answers with a text
AttemptOk ==
    /\ pc = "call"
    /\ \E text \in ModelTexts(prompt) :
          /\ lastOutcome' = OkOutcome
          /\ ReturnText(text)
    /\ invocations' = invocations + 1
    /\ UNCHANGED <<callKind, prompt>>
    /\ UNCHANGED <<cfgVars, callerVars, convVars>>

\* one iteration of the for loop: generate_content raises
AttemptError ==
    /\ pc = "call"
    /\ \E error_str \in ErrorMarkers :
          /\ lastOutcome' = ErrorOutcome(error_str)
          /\ IF IsRateLimit(error_str)
             THEN /\ waited' = waited + wait_time(attempt)
                  /\ attempt' = attempt + 1
                  /\ IF attempt + 1 < max_retries
                     THEN /\ pc' = "call"
                          /\ UNCHANGED <<response, failedCalls, notFoundSeen>>
                     ELSE /\ pc' = "ret"
                          /\ response' = ExhaustedSentinel
                          /\ failedCalls' = failedCalls \cup {i}
                          /\ UNCHANGED notFoundSeen
             ELSE ReturnError(error_str)
    /\ invocations' = invocations + 1
    /\ UNCHANGED <<callKind, prompt>>
    /\ UNCHANGED <<cfgVars, callerVars, convVars>>

-----------------------------------------------------------------------------
(* Two-Pass Orchestrator: analyze_transcript, lines 415-494 *)

\* GOD_ROLL_PROMPT + transcript and WEAPON_EXTRACT_PROMPT + transcript
GodRollPrompt == [kind |-> "god_roll"]
WeaponExtractPrompt == [kind |-> "weapon_extract"]

PromptCap == 20

\* lines 472-475 without the [:20]
PromptListUncapped(names) == IF names # <<>> THEN names ELSE <<"N/A">>

\* ', '.join(names[:20]) if names else 'N/A', lines 472-475
PromptList(names) ==
    IF names # <<>>
    THEN SubSeq(names, 1, IF Len(names) < PromptCap THEN Len(names) ELSE PromptCap)
    ELSE <<"N/A">>

\* CONSTRAINED_ROLL_PROMPT.format(...) + transcript, lines 469-476
ConstrainedPrompt(weapon_name, mode, valid_perks) ==
    [kind |-> "constrained", weapon_name |-> weapon_name, mode |-> mode,
     barrels |-> PromptList(valid_perks.barrels),
     magazines |-> PromptList(valid_perks.magazines),
     trait1 |-> PromptList(valid_perks.trait1),
     trait2 |-> PromptList(valid_perks.trait2)]

Crash(site) ==
    /\ pc' = "crashed"
    /\ crashSite' = site

mainVars == <<videos, start_index, i, all_uncertain, all_raw_rolls, disk, sleeps,
              transcript>>
callVars == <<callKind, prompt, attempt, waited, response, invocations, lastOutcome>>

\* lines 425, 436, 494 returning the accumulated records instead
ReturnUnconstrainedAsRolls ==
    /\ pc = "ret"
    /\ callKind \in {"single", "fallback_pass1", "fallback_final"}
    /\ raw_response' = json_dumps(JList(all_rolls))
    /\ pc' = "post"
    /\ EndCall
    /\ UNCHANGED <<weapons, j, all_rolls, calls, failedCalls, notFoundSeen, crashSite>>
    /\ UNCHANGED <<cfgVars, mainVars, convVars>>

\* lines 425, 436, 494: return call_gemini(prompt)
ReturnUnconstrained ==
    /\ pc = "ret"
    /\ callKind \in {"single", "fallback_pass1", "fallback_final"}
    /\ raw_response' = response
    /\ pc' = "post"
    /\ EndCall
    /\ UNCHANGED <<weapons, j, all_rolls, calls, failedCalls, notFoundSeen, crashSite>>
    /\ UNCHANGED <<cfgVars, mainVars, convVars>>

\* line 438: len(weapons) and w.get('weapon', '?') of every element, joined
Pass1Raises(ws) ==
    \/ ws.t # "list"
    \/ \E n \in DOMAIN ws.xs :
          \/ ws.xs[n].t # "obj"
          \/ ~IsStr(Get(ws.xs[n], "weapon", JStr("?")))

\* lines 431-441
Pass1Return ==
    /\ pc = "ret"
    /\ callKind = "pass1"
    /\ LET ws == parse_gemini_response(response)
       IN  IF ~Truthy(ws)
           THEN /\ StartCall("fallback_pass1", GodRollPrompt)
                /\ calls' = Append(calls, "fallback_pass1")
                /\ UNCHANGED <<weapons, j, all_rolls, crashSite>>
           ELSE IF Pass1Raises(ws)
           THEN /\ Crash("pass1")
                /\ UNCHANGED <<weapons, j, all_rolls, calls, callVars>>
           ELSE /\ weapons' = ws.xs
                /\ j' = 1
                /\ all_rolls' = <<>>
                /\ pc' = "cand"
                /\ EndCall
                /\ UNCHANGED <<calls, crashSite>>
    /\ UNCHANGED <<raw_response, failedCalls, notFoundSeen>>
    /\ UNCHANGED <<cfgVars, mainVars, convVars>>

\* lines 443-448: a candidate without a weapon name is skipped
CandidateSkip ==
    /\ pc = "cand"
    /\ j <= Len(weapons)
    /\ ~Truthy(Get(weapons[j], "weapon", JStr("")))
    /\ j' = j + 1
    /\ UNCHANGED <<pc, weapons, all_rolls, raw_response, calls, failedCalls, notFoundSeen,
                   crashSite>>
    /\ UNCHANGED <<cfgVars, mainVars, callVars, convVars>>

\* lines 450-457: no perk pool for the candidate
CandidateMiss ==
    /\ pc = "cand"
    /\ j <= Len(weapons)
    /\ LET weapon_name == Get(weapons[j], "weapon", JStr(""))
       IN  /\ Truthy(weapon_name)
           /\ ~get_valid_perks_for_weapon(weapon_name.s).found
    /\ StartCall("miss", GodRollPrompt)
    /\ calls' = Append(calls, "miss")
    /\ UNCHANGED <<weapons, j, all_rolls, raw_response, failedCalls, notFoundSeen, crashSite>>
    /\ UNCHANGED <<cfgVars, mainVars, convVars>>

\* lines 450-453, 466-478: the constrained call
CandidateHit ==
    /\ pc = "cand"
    /\ j <= Len(weapons)
    /\ LET weapon_name == Get(weapons[j], "weapon", JStr(""))
           mode == Get(weapons[j], "mode", JStr("Both"))
       IN  /\ Truthy(weapon_name)
           /\ get_valid_perks_for_weapon(weapon_name.s).found
           /\ StartCall("pass2", ConstrainedPrompt(weapon_name, mode,
                                     get_valid_perks_for_weapon(weapon_name.s)))
    /\ calls' = Append(calls, "pass2")
    /\ UNCHANGED <<weapons, j, all_rolls, raw_response, failedCalls, notFoundSeen, crashSite>>
    /\ UNCHANGED <<cfgVars, mainVars, convVars>>

\* lines 463, 484, 486 replacing the list instead of adding to it
AccumulateOverwrite(rolls, new) == new

\* lines 463, 484, 486: all_rolls.append / all_rolls.extend
Accumulate(rolls, new) == rolls \o new

\* lines 461-462: iterating rolls and roll.get('weapon', '').lower()
MissRaises(rolls) ==
    \/ rolls.t # "list"
    \/ \E n \in DOMAIN rolls.xs :
          \/ rolls.xs[n].t # "obj"
          \/ ~IsStr(Get(rolls.xs[n], "weapon", JStr("")))

\* lines 458-464
MissReturn ==
    /\ pc = "ret"
    /\ callKind = "miss"
    /\ LET rolls == parse_gemini_response(response)
           weapon_name == Get(weapons[j], "weapon", JStr(""))
       IN  IF ~Truthy(rolls)
           THEN /\ pc' = "cand"
                /\ j' = j + 1
                /\ EndCall
                /\ UNCHANGED <<all_rolls, crashSite>>
           ELSE IF MissRaises(rolls)
           THEN /\ Crash("miss")
                /\ UNCHANGED <<all_rolls, j, callVars>>
           ELSE /\ all_rolls' = Accumulate(all_rolls,
                       SelectSeq(rolls.xs, LAMBDA roll :
                           LowerOnly(Get(roll, "weapon", JStr("")).s)
                               = LowerOnly(weapon_name.s)))
                /\ pc' = "cand"
                /\ j' = j + 1
                /\ EndCall
                /\ UNCHANGED crashSite
    /\ UNCHANGED <<weapons, raw_response, calls, failedCalls, notFoundSeen>>
    /\ UNCHANGED <<cfgVars, mainVars, convVars>>

\* lines 479-486
Pass2Return ==
    /\ pc = "ret"
    /\ callKind = "pass2"
    /\ LET roll == parse_gemini_response(response)
       IN  all_rolls' = IF Truthy(roll) /\ roll.t = "obj"
                        THEN Accumulate(all_rolls, <<roll>>)
                        ELSE IF Truthy(roll) /\ roll.t = "list"
                        THEN Accumulate(all_rolls, roll.xs)
                        ELSE all_rolls
    /\ pc' = "cand"
    /\ j' = j + 1
    /\ EndCall
    /\ UNCHANGED <<weapons, raw_response, calls, failedCalls, notFoundSeen, crashSite>>
    /\ UNCHANGED <<cfgVars, mainVars, convVars>>

\* lines 488-489: the accumulated rolls are the result
ReturnRolls ==
    /\ pc = "cand"
    /\ j > Len(weapons)
    /\ all_rolls # <<>>
    /\ raw_response' = json_dumps(JList(all_rolls))
    /\ pc' = "post"
    /\ UNCHANGED <<weapons, j, all_rolls, calls, failedCalls, notFoundSeen, crashSite>>
    /\ UNCHANGED <<cfgVars, mainVars, callVars, convVars>>

\* lines 490-494 without the return of line 489
FinalFallbackAlways ==
    /\ pc = "cand"
    /\ j > Len(weapons)
    /\ StartCall("fallback_final", GodRollPrompt)
    /\ calls' = Append(calls, "fallback_final")
    /\ UNCHANGED <<weapons, j, all_rolls, raw_response, failedCalls, notFoundSeen, crashSite>>
    /\ UNCHANGED <<cfgVars, mainVars, convVars>>

\* lines 490-494: two-pass yielded nothing
FinalFallback ==
    /\ pc = "cand"
    /\ j > Len(weapons)
    /\ all_rolls = <<>>
    /\ StartCall("fallback_final", GodRollPrompt)
    /\ calls' = Append(calls, "fallback_final")
    /\ UNCHANGED <<weapons, j, all_rolls, raw_response, failedCalls, notFoundSeen, crashSite>>
    /\ UNCHANGED <<cfgVars, mainVars, convVars>>

-----------------------------------------------------------------------------
(* __main__: the loop over the videos and the final summary, lines 764-845 *)

\* the review items of lines 794, 801, 808
NoSubtitles(v) == [k |-> "no subtitles", video |-> v]
SentinelItem(v, text) == [k |-> "error", video |-> v, text |-> text]
FailedToParse(v) == [k |-> "failed to parse", video |-> v]

RawRolls(v, god_rolls) == [video_info |-> [title |-> v], rolls |-> god_rolls]

NoFile == <<>>

analyzeVars == <<weapons, j, all_rolls, raw_response>>

\* the loop body is left: the values of this iteration are dropped
EndIteration ==
    /\ weapons' = <<>>
    /\ j' = 0
    /\ all_rolls' = <<>>
    /\ raw_response' = NoText
    /\ calls' = <<>>

\* line 767 with the list exhausted: on to the final summary
LoopExit ==
    /\ pc = "loop"
    /\ i >= Len(videos)
    /\ pc' = "final"
    /\ UNCHANGED <<calls, failedCalls, notFoundSeen, crashSite>>
    /\ UNCHANGED <<cfgVars, mainVars, analyzeVars, callVars, convVars>>

\* lines 768-769
LoopSkip ==
    /\ pc = "loop"
    /\ i < Len(videos)
    /\ i < start_index
    /\ i' = i + 1
    /\ UNCHANGED <<pc, videos, start_index, all_uncertain, all_raw_rolls, disk, sleeps,
                   transcript, calls, failedCalls, notFoundSeen, crashSite>>
    /\ UNCHANGED <<cfgVars, analyzeVars, callVars, convVars>>

\* lines 790-795 without the review item of line 794
NoTranscriptSilent ==
    /\ pc = "loop"
    /\ i < Len(videos)
    /\ i >= start_index
    /\ \E t \in Transcripts :
          /\ ~Truthy(t)
          /\ transcript' = t
    /\ i' = i + 1
    /\ calls' = <<>>
    /\ UNCHANGED <<pc, videos, start_index, all_uncertain, all_raw_rolls, disk, sleeps,
                   failedCalls, notFoundSeen, crashSite>>
    /\ UNCHANGED <<cfgVars, analyzeVars, callVars, convVars>>

\* lines 790-795
NoTranscript ==
    /\ pc = "loop"
    /\ i < Len(videos)
    /\ i >= start_index
    /\ \E t \in Transcripts :
          /\ ~Truthy(t)
          /\ transcript' = t
    /\ all_uncertain' = Append(all_uncertain, NoSubtitles(i))
    /\ i' = i + 1
    /\ calls' = <<>>
    /\ UNCHANGED <<pc, videos, start_index, all_raw_rolls, disk, sleeps, failedCalls, notFoundSeen,
                   crashSite>>
    /\ UNCHANGED <<cfgVars, analyzeVars, callVars, convVars>>

\* lines 790-797 and 419-430: analyze_transcript up to its first call
StartAnalyze ==
    /\ pc = "loop"
    /\ i < Len(videos)
    /\ i >= start_index
    /\ \E t \in Transcripts :
          /\ Truthy(t)
          /\ transcript' = t
    /\ IF DOMAIN WEAPON_PERK_POOLS = {} \/ DOMAIN PERK_NAMES = {}
       THEN /\ StartCall("single", GodRollPrompt)
            /\ calls' = <<"single">>
       ELSE /\ StartCall("pass1", WeaponExtractPrompt)
            /\ calls' = <<"pass1">>
    /\ weapons' = <<>>
    /\ j' = 0
    /\ all_rolls' = <<>>
    /\ notFoundSeen' = FALSE
    /\ UNCHANGED <<videos, start_index, i, all_uncertain, all_raw_rolls, disk, sleeps,
                   raw_response, failedCalls, crashSite>>
    /\ UNCHANGED <<cfgVars, convVars>>

postVars == <<videos, start_index, disk, transcript, failedCalls, notFoundSeen>>

\* lines 799-802
PostSentinel ==
    /\ pc = "post"
    /\ StartsWithMarker(raw_response)
    /\ all_uncertain' = Append(all_uncertain, SentinelItem(i, raw_response))
    /\ i' = i + 1
    /\ pc' = "loop"
    /\ UNCHANGED <<all_raw_rolls, sleeps, crashSite>>
    /\ EndIteration
    /\ UNCHANGED <<cfgVars, postVars, callVars, convVars>>

\* lines 804-809
PostParseFailure ==
    /\ pc = "post"
    /\ ~StartsWithMarker(raw_response)
    /\ parse_gemini_response(raw_response) = None
    /\ all_uncertain' = Append(all_uncertain, FailedToParse(i))
    /\ i' = i + 1
    /\ pc' = "loop"
    /\ UNCHANGED <<all_raw_rolls, sleeps, crashSite>>
    /\ EndIteration
    /\ UNCHANGED <<cfgVars, postVars, callVars, convVars>>

\* lines 811-813
PostNoRolls ==
    /\ pc = "post"
    /\ ~StartsWithMarker(raw_response)
    /\ parse_gemini_response(raw_response) # None
    /\ ~Truthy(parse_gemini_response(raw_response))
    /\ i' = i + 1
    /\ pc' = "loop"
    /\ UNCHANGED <<all_uncertain, all_raw_rolls, sleeps, crashSite>>
    /\ EndIteration
    /\ UNCHANGED <<cfgVars, postVars, callVars, convVars>>

\* line 815: len(god_rolls) of a number is a TypeError
PostRaises ==
    /\ pc = "post"
    /\ ~StartsWithMarker(raw_response)
    /\ Truthy(parse_gemini_response(raw_response))
    /\ parse_gemini_response(raw_response).t = "num"
    /\ Crash("main")
    /\ UNCHANGED <<i, all_uncertain, all_raw_rolls, sleeps>>
    /\ UNCHANGED <<cfgVars, postVars, analyzeVars, calls, callVars, convVars>>

\* lines 815-832
PostStore ==
    /\ pc = "post"
    /\ ~StartsWithMarker(raw_response)
    /\ Truthy(parse_gemini_response(raw_response))
    /\ parse_gemini_response(raw_response).t # "num"
    /\ all_raw_rolls' = Append(all_raw_rolls,
                               RawRolls(i, parse_gemini_response(raw_response)))
    /\ sleeps' = sleeps + 1
    /\ i' = i + 1
    /\ pc' = "loop"
    /\ UNCHANGED <<all_uncertain, crashSite>>
    /\ EndIteration
    /\ UNCHANGED <<cfgVars, postVars, callVars, convVars>>

WishlistName == "YouTube God Rolls"
Description == "Extracted from: video_link"

\* lines 842-845, given what convert_to_dim_format returned or raised
WriteWishlist(out) ==
    IF out.raised
    THEN /\ Crash("convert")
         /\ UNCHANGED <<all_uncertain, disk>>
    ELSE /\ all_uncertain' = all_uncertain \o out.uncertain
         /\ disk' = out.lines
         /\ pc' = "done"
         /\ UNCHANGED crashSite

\* lines 837-845
FinalSummary ==
    /\ pc = "final"
    /\ WriteWishlist(convert_to_dim_format(all_raw_rolls, WishlistName, Description))
    /\ UNCHANGED <<videos, start_index, i, all_raw_rolls, sleeps, transcript, calls,
                   failedCalls, notFoundSeen>>
    /\ UNCHANGED <<cfgVars, analyzeVars, callVars, convVars>>

-----------------------------------------------------------------------------
(* The run *)

ConvIdle == [k |-> "idle"]

\* every variable of the run, before the run has started
RunIdle ==
    /\ pc = "loop"
    /\ i = 0
    /\ all_uncertain = <<>>
    /\ all_raw_rolls = <<>>
    /\ raw_response = NoText
    /\ disk = NoFile
    /\ sleeps = 0
    /\ weapons = <<>>
    /\ j = 0
    /\ all_rolls = <<>>
    /\ callKind = "none"
    /\ prompt = NoPrompt
    /\ attempt = 0
    /\ waited = 0
    /\ response = NoText
    /\ transcript = None
    /\ invocations = 0
    /\ lastOutcome = NoOutcome
    /\ calls = <<>>
    /\ failedCalls = {}
    /\ notFoundSeen = FALSE
    /\ crashSite = "none"

Init ==
    /\ HAS_FUZZY \in BOOLEAN
    /\ poolsLoaded \in BOOLEAN
    /\ videos \in {[n \in 1..k |-> n] : k \in 1..NumVideos}
    /\ start_index \in 0..(Len(videos) - 1)
    /\ RunIdle
    /\ convIn = ConvIdle
    /\ convOut = ConvIdle

Next ==
    \/ LoopExit \/ LoopSkip \/ NoTranscript \/ StartAnalyze
    \/ AttemptOk \/ AttemptError
    \/ ReturnUnconstrained \/ Pass1Return
    \/ CandidateSkip \/ CandidateMiss \/ CandidateHit
    \/ MissReturn \/ Pass2Return \/ ReturnRolls \/ FinalFallback
    \/ PostSentinel \/ PostParseFailure \/ PostNoRolls \/ PostRaises \/ PostStore
    \/ FinalSummary

Spec == Init /\ [][Next]_vars

-----------------------------------------------------------------------------
(* convert_to_dim_format on its own: one call on a list of raw rolls *)

MaxColumnPerks == 2

\* a column of a roll: null, or a list of at most MaxColumnPerks names
ColumnChoices(names) ==
    {None} \cup {JList([n \in DOMAIN ns |-> JStr(ns[n])]) :
                    ns \in BoundedSeq(names, MaxColumnPerks)}

\* a list with entries that line 661 passes over
SkippedEntries == JList(<<JStr("null"), JStr(""), JStr("Accurized Rounds"), None>>)

ConvWeapons == {"Solemn Remembrance", "Solemn Remembrence", "Mystery Gun"}

ColumnRolls ==
    {JObj([weapon |-> JStr(w), mode |-> JStr("PvE"), barrel |-> b, magazine |-> m,
           trait1 |-> t1, trait2 |-> t2, reasoning |-> Reasoning]) :
        w \in ConvWeapons,
        b \in ColumnChoices({"Arrowhead Brake", "Bogus Perk"}),
        m \in ColumnChoices({"Accurized Rounds"}) \cup {SkippedEntries},
        t1 \in ColumnChoices({"Headstone", "Head Stone"}),
        t2 \in ColumnChoices({"Firefly", "Demolitionist"})}

\* rolls whose weapon is missing, null or empty
NamelessRolls ==
    {JObj([trait1 |-> JList(<<JStr("Headstone"), JStr("Bogus Perk")>>),
           reasoning |-> Reasoning]),
     JObj([weapon |-> None, trait1 |-> JList(<<JStr("Headstone")>>),
           trait2 |-> JList(<<JStr("Bogus Perk"), JStr("Head Stone")>>),
           reasoning |-> Reasoning]),
     JObj([weapon |-> JStr(""), barrel |-> JList(<<JStr("Bogus Perk")>>),
           reasoning |-> Reasoning])}

ConvRolls == ColumnRolls \cup NamelessRolls

\* the all_raw_rolls given to convert_to_dim_format
ConvInput(raw_rolls) == [k |-> "input", raw_rolls |-> raw_rolls]

\* values of the mode field; NoMode stands for a roll without the field
NoMode == [t |-> "absent"]
LineBreakMode == JText(<<"P", "v", "E", "\n", "x">>)
ConvModes ==
    {NoMode, JStr("PvE"), JStr("PvP"), JStr("Both"), JStr("pve"), None, JNum(7),
     LineBreakMode}

\* a text one character longer than the note may be
LongReasoning ==
    [n \in 1..(NoteLimit + 1) |->
        IF n = 50 THEN "|" ELSE IF n = NoteLimit + 1 THEN "\n" ELSE "x"]

\* a reasoning of exactly 100 characters that ends with the separator
ExactReasoning == [n \in 1..NoteLimit |-> IF n = NoteLimit THEN "|" ELSE "y"]

ConvReasonings ==
    {Reasoning,
     JText(ExactReasoning),
     JText(<<>>),
     JText(<<"a", "|", "t", "a", "g", "s", ":", "p", "v", "p">>),
     JText(<<"x", "&", "p", "e", "r", "k", "s", "=", "9", "#", "n", "o", "t", "e", "s",
             ":", "y">>),
     JText(<<"a", "\n", "b", "#", "&", ",">>),
     JText(<<"t", "a", "g", "s", ":">>),
     JText(LongReasoning),
     None}

FormatRoll(mode, reasoning) ==
    IF mode = NoMode
    THEN JObj([weapon |-> JStr("Solemn Remembrance"),
               trait1 |-> JList(<<JStr("Headstone")>>),
               trait2 |-> JList(<<JStr("Firefly"), JStr("Demolitionist")>>),
               reasoning |-> reasoning])
    ELSE JObj([weapon |-> JStr("Solemn Remembrance"), mode |-> mode,
               trait1 |-> JList(<<JStr("Headstone")>>),
               trait2 |-> JList(<<JStr("Firefly"), JStr("Demolitionist")>>),
               reasoning |-> reasoning])

\* rolls that differ in mode and reasoning
FormatRolls == {FormatRoll(mode, reasoning) : mode \in ConvModes, reasoning \in ConvReasonings}

MaxRolls == 2

\* rolls with several perks in several columns, with an unknown weapon, and
\* with no perk that resolves
OrderRolls ==
    {JObj([weapon |-> JStr("Solemn Remembrance"), mode |-> JStr("PvE"),
           barrel |-> JList(<<JStr("Arrowhead Brake")>>),
           trait1 |-> JList(<<JStr("Headstone"), JStr("Demolitionist")>>),
           trait2 |-> JList(<<JStr("Firefly"), JStr("Demolitionist")>>),
           reasoning |-> Reasoning, timestamp |-> JStr("01:23")]),
     JObj([weapon |-> JStr("The Martlet"), mode |-> JStr("PvP"),
           magazine |-> JList(<<JStr("Accurized Rounds"), JStr("Bogus Perk")>>),
           trait2 |-> JList(<<JStr("Firefly")>>),
           reasoning |-> Reasoning]),
     JObj([weapon |-> JStr("Mystery Gun"), mode |-> JStr("PvP"),
           trait1 |-> JList(<<JStr("Headstone")>>),
           reasoning |-> Reasoning]),
     JObj([weapon |-> JStr("Solemn Remembrance"), mode |-> JStr("Both"),
           trait1 |-> JList(<<JStr("Bogus Perk")>>),
           reasoning |-> Reasoning])}

\* one video with up to MaxRolls rolls, and two videos with one roll each
OrderInputs ==
    {<<RawRolls(0, JList(rolls))>> : rolls \in BoundedSeq(OrderRolls, MaxRolls)}
    \cup {<<RawRolls(0, JList(<<a>>)), RawRolls(1, JList(<<b>>))>> :
            a \in OrderRolls, b \in OrderRolls}

ConvInputs ==
    {ConvInput(<<RawRolls(0, JList(<<roll>>))>>) : roll \in ConvRolls \cup FormatRolls}
    \cup {ConvInput(raw_rolls) : raw_rolls \in OrderInputs}

InitConv ==
    /\ HAS_FUZZY \in BOOLEAN
    /\ poolsLoaded = TRUE
    /\ videos = <<1>>
    /\ start_index = 0
    /\ RunIdle
    /\ convIn \in ConvInputs
    /\ convOut = ConvIdle

Convert ==
    /\ convIn # ConvIdle
    /\ convOut = ConvIdle
    /\ convOut' = convert_to_dim_format(convIn.raw_rolls, WishlistName, Description)
    /\ UNCHANGED <<cfgVars, runVars, convIn>>

SpecConv == InitConv /\ [][Convert]_vars

\* the rolls of a list of raw rolls, in order
RECURSIVE RollsOf(_)
RollsOf(raw_rolls) ==
    IF raw_rolls = <<>> THEN <<>>
    ELSE Head(raw_rolls).rolls.xs \o RollsOf(Tail(raw_rolls))

InputRolls == RollsOf(convIn.raw_rolls)

Converted == convOut # ConvIdle /\ ~convOut.raised

DimLines(lines) == SelectSeq(lines, LAMBDA l : l.k = "dimwishlist")

WeaponHash(roll) ==
    lookup_hash(Get(roll, "weapon", JStr("")), WEAPON_LOOKUP, DefaultThreshold).h

\* N_i: the perk names of a column that resolve to an identifier
Resolved(roll, column_key) ==
    LET v == Get(roll, column_key, None)
    IN  IF v.t # "list" THEN 0
        ELSE Cardinality({n \in DOMAIN v.xs :
                /\ Truthy(v.xs[n])
                /\ v.xs[n] # JStr("null")
                /\ lookup_hash(v.xs[n], PERK_LOOKUP, DefaultThreshold).h # NoHash})

AtLeastOne(n) == IF n < 1 THEN 1 ELSE n

ExpectedLines(roll) ==
    IF WeaponHash(roll) = NoHash THEN 0
    ELSE IF \A n \in 1..4 : Resolved(roll, ColumnKeys[n]) = 0 THEN 0
    ELSE AtLeastOne(Resolved(roll, "barrel")) * AtLeastOne(Resolved(roll, "magazine"))
         * AtLeastOne(Resolved(roll, "trait1")) * AtLeastOne(Resolved(roll, "trait2"))

ScenarioRoll ==
    JObj([weapon |-> JStr("Solemn Remembrance"), mode |-> JStr("PvE"),
          barrel |-> None, magazine |-> None,
          trait1 |-> JList(<<JStr("Headstone")>>),
          trait2 |-> JList(<<JStr("Firefly")>>), reasoning |-> Reasoning])

\* C1: a roll whose weapon resolves yields max(1,N1) * max(1,N2) * max(1,N3) *
\* max(1,N4) dimwishlist lines, N_i being the resolved perks of column i, and
\* none when all four N_i are 0; the roll with only trait1 = [Headstone] and
\* trait2 = [Firefly] yields exactly one line that carries both identifiers.
C1_LineCount ==
    Converted =>
        /\ Len(DimLines(convOut.lines))
              = SeqSum([n \in DOMAIN InputRolls |->
                            ExpectedLines(InputRolls[n])])
        /\ InputRolls = <<ScenarioRoll>> =>
              /\ Len(DimLines(convOut.lines)) = 1
              /\ DimLines(convOut.lines)[1].item = 101
              /\ DimLines(convOut.lines)[1].perks = <<11, 12>>

\* a roll with N = (0, 1, 2, 2) has been expanded into its 4 lines
C1_Witness ==
    /\ Converted
    /\ Len(InputRolls) = 1
    /\ WeaponHash(InputRolls[1]) # NoHash
    /\ Resolved(InputRolls[1], "barrel") = 0
    /\ Resolved(InputRolls[1], "magazine") = 1
    /\ Resolved(InputRolls[1], "trait1") = 2
    /\ Resolved(InputRolls[1], "trait2") = 2
    /\ Len(DimLines(convOut.lines)) = 4

\* C4: a roll whose weapon does not resolve adds no line of any kind to the
\* output and exactly one review item, the unknown-weapon item, however many
\* perks it lists.
C4_UnknownWeaponSkipped ==
    (Converted /\ Len(InputRolls) = 1
        /\ WeaponHash(InputRolls[1]) = NoHash) =>
        /\ convOut.lines = <<TitleLine(WishlistName), DescriptionLine(Description),
                             BlankLine>>
        /\ convOut.uncertain
              = <<UnknownWeapon(Get(InputRolls[1], "weapon", JStr("")))>>

\* an unknown weapon whose roll lists a perk that would itself need review
C4_Witness ==
    /\ Converted
    /\ Len(InputRolls) = 1
    /\ WeaponHash(InputRolls[1]) = NoHash
    /\ Get(InputRolls[1], "barrel", None)
          = JList(<<JStr("Bogus Perk"), JStr("Arrowhead Brake")>>)
    /\ Get(InputRolls[1], "trait1", None) = JList(<<JStr("Head Stone")>>)
    /\ Len(convOut.uncertain) = 1

-----------------------------------------------------------------------------
(* The Extraction Client's retry loop *)

\* the rate-limit signal: the failure text names 429 or RESOURCE_EXHAUSTED
RateLimitSignal(o) ==
    o.kind = "error" /\ ("429" \in o.markers \/ "RESOURCE_EXHAUSTED" \in o.markers)

\* the model-not-found condition: a 404 that is not a rate-limit signal
NotFoundCondition(o) ==
    o.kind = "error" /\ "404" \in o.markers /\ ~RateLimitSignal(o)

\* any other failure
OtherFailure(o) ==
    o.kind = "error" /\ "404" \notin o.markers /\ ~RateLimitSignal(o)

Invoked == invocations' = invocations + 1

\* C5: a call invokes the provider at most max_retries (5) times; an
\* invocation follows another only when every earlier one of the call was
\* rate-limited; whatever else an invocation does ends the call; and the call
\* ends with a text.
C5_BoundedRetry ==
    /\ [](/\ invocations <= max_retries
          /\ pc = "call" => /\ invocations < max_retries
                            /\ attempt = invocations
                            /\ invocations > 0 => RateLimitSignal(lastOutcome)
          /\ pc = "ret" => /\ invocations >= 1
                           /\ response \in Sentinels \cup ModelTexts(prompt)
                           /\ response = ExhaustedSentinel => invocations = max_retries)
    /\ [][pc = "call" =>
            /\ Invoked
            /\ pc' \in {"call", "ret"}
            /\ pc' = "call" => RateLimitSignal(lastOutcome')
            /\ ~RateLimitSignal(lastOutcome') => pc' = "ret"]_vars

\* five rate-limited invocations have ended a call
C5_Witness ==
    /\ pc = "ret"
    /\ invocations = 5
    /\ response = ExhaustedSentinel

\* C6: a model-not-found failure ends the call in the same attempt with the
\* not-found sentinel, without a wait; any failure that is neither a rate limit
\* nor model-not-found ends it with the error as text; no failure leaves
\* call_gemini as an exception.
C6_FailClosed ==
    [][pc = "call" =>
          /\ NotFoundCondition(lastOutcome') =>
                /\ pc' = "ret"
                /\ response' = NotFoundSentinel
                /\ waited' = waited
                /\ attempt' = attempt
          /\ OtherFailure(lastOutcome') =>
                /\ pc' = "ret"
                /\ response' = ErrorSentinel
                /\ waited' = waited
                /\ attempt' = attempt
          /\ pc' # "crashed"]_vars

\* a call that was rate-limited twice and then met a 404
C6_Witness ==
    /\ pc = "ret"
    /\ response = NotFoundSentinel
    /\ invocations = 3
    /\ waited = 45
    /\ NotFoundCondition(lastOutcome)

-----------------------------------------------------------------------------
(* analyze_transcript *)

\* the perk names a roll record gives for a column
PerkNamesOf(roll, col) ==
    IF roll.t = "obj" /\ Get(roll, col, None).t = "list"
    THEN {x.s : x \in {y \in Range(Get(roll, col, None).xs) : y.t = "str"}}
    ELSE {}

\* the valid perk-name list the pass-2 prompt supplies for a column
PromptColumn(p, col) ==
    CASE col = "barrel" -> p.barrels
      [] col = "magazine" -> p.magazines
      [] col = "trait1" -> p.trait1
      [] col = "trait2" -> p.trait2

IsPrefix(s, t) ==
    /\ Len(s) <= Len(t)
    /\ \A n \in DOMAIN s : s[n] = t[n]

\* C2: every perk name of every roll record accumulated from a pass-2
\* response is a member of the list the pass-2 prompt supplied for its column.
C2_ClosedWorld ==
    [][(pc = "ret" /\ callKind = "pass2") =>
          \A n \in (Len(all_rolls) + 1)..Len(all_rolls') :
              \A c \in DOMAIN ColumnKeys :
                  PerkNamesOf(all_rolls'[n], ColumnKeys[c])
                      \subseteq Range(PromptColumn(prompt, ColumnKeys[c]))]_vars

\* C3: no sequence of transcripts and model responses ends the run with an
\* uncaught error.
C3_NoUncaughtError == pc # "crashed"

\* C7: once every candidate has been iterated, an empty record list leads to
\* exactly one more call, with GOD_ROLL_PROMPT, whose raw output is the result;
\* a non-empty record list is the result without a further call; and each
\* candidate's records are added behind those of the candidates before it.
C7_FallbackResolution ==
    /\ [][/\ (pc = "cand" /\ j > Len(weapons) /\ all_rolls = <<>>) =>
                /\ pc' = "call"
                /\ callKind' = "fallback_final"
                /\ prompt' = GodRollPrompt
                /\ calls' = Append(calls, "fallback_final")
          /\ (pc = "ret" /\ callKind = "fallback_final") =>
                /\ pc' = "post"
                /\ raw_response' = response
                /\ calls' = calls
          /\ (pc = "cand" /\ j > Len(weapons) /\ all_rolls # <<>>) =>
                /\ pc' = "post"
                /\ raw_response' = json_dumps(JList(all_rolls))
                /\ calls' = calls
          /\ (pc \in {"cand", "call", "ret"} /\ pc' \in {"cand", "call", "ret"}) =>
                IsPrefix(all_rolls, all_rolls')]_vars
    /\ [](pc = "post" =>
            Cardinality({n \in DOMAIN calls : calls[n] = "fallback_final"})
                = IF "pass1" \in Range(calls) /\ "fallback_pass1" \notin Range(calls)
                     /\ all_rolls = <<>>
                  THEN 1 ELSE 0)

\* two candidates, the first answered by a constrained call and the second by
\* a call with GOD_ROLL_PROMPT: the result lists their records in that order
C7_Witness ==
    /\ pc = "post"
    /\ calls = <<"pass1", "pass2", "miss">>
    /\ raw_response = json_dumps(JList(<<GoodRoll, MartletRoll>>))

-----------------------------------------------------------------------------
(* The main loop *)

\* the wishlist lines of one stored video
EntriesOf(item) ==
    IF ConvertItem(item).raised THEN {}
    ELSE Range(DimLines(ConvertItem(item).lines))

\* C8: between two videos, the wishlist entries of every video processed
\* so far are on disk.
C8_Incremental ==
    pc = "loop" =>
        \A n \in DOMAIN all_raw_rolls : EntriesOf(all_raw_rolls[n]) \subseteq Range(disk)

\* the review list has an item for video v: one the main loop wrote for it,
\* or one the conversion writes for its stored rolls
HasReviewItem(v) ==
    \/ \E n \in DOMAIN all_uncertain :
          /\ "video" \in DOMAIN all_uncertain[n]
          /\ all_uncertain[n].video = v
    \/ \E n \in DOMAIN all_raw_rolls :
          /\ all_raw_rolls[n].video_info.title = v
          /\ ~ConvertItem(all_raw_rolls[n]).raised
          /\ ConvertItem(all_raw_rolls[n]).uncertain # <<>>

\* C9: once a video has been processed, if one of its calls returned a
\* sentinel or unparseable text then the review list has an item for it.
C9_ReviewItem ==
    pc = "loop" => \A v \in failedCalls : HasReviewItem(v)

\* C10: a video without a transcript makes no call, stores no rolls, adds
\* exactly one review item and hands over to the next video.
C10_Unavailable ==
    [][(pc = "loop" /\ i >= start_index /\ i < Len(videos) /\ ~Truthy(transcript')) =>
          /\ pc' = "loop"
          /\ i' = i + 1
          /\ calls' = <<>>
          /\ callKind' = callKind
          /\ invocations' = invocations
          /\ all_raw_rolls' = all_raw_rolls
          /\ all_uncertain' = Append(all_uncertain, NoSubtitles(i))]_vars

\* the first video had no transcript and the second one is being analysed
C10_Witness ==
    /\ pc = "call"
    /\ i = 1
    /\ start_index = 0
    /\ all_uncertain = <<NoSubtitles(0)>>
    /\ all_raw_rolls = <<>>

-----------------------------------------------------------------------------
(* The lines convert_to_dim_format emits *)

PveOnly == <<"pve">>
PvpOnly == <<"pvp">>
PveAndPvp == <<"pve", "pvp">>

\* the tag set the mode of a roll calls for
ExpectedTags(roll) ==
    IF "mode" \notin DOMAIN roll.f THEN PveAndPvp
    ELSE IF roll.f.mode = JStr("PvE") THEN PveOnly
    ELSE IF roll.f.mode = JStr("PvP") THEN PvpOnly
    ELSE IF roll.f.mode = JStr("Both") THEN PveAndPvp
    ELSE PveOnly

\* C11: every dimwishlist line carries pve for mode PvE, pvp for PvP, pve,pvp
\* for Both or no mode, and pve for any other mode; its tag set is never empty
\* and holds nothing but pve and pvp.
C11_Tags ==
    Converted =>
        \A n \in DOMAIN DimLines(convOut.lines) :
            /\ DimLines(convOut.lines)[n].tags \in {PveOnly, PvpOnly, PveAndPvp}
            /\ Len(InputRolls) = 1 =>
                  DimLines(convOut.lines)[n].tags = ExpectedTags(InputRolls[1])

\* a roll whose mode is JSON null has been converted into two lines
C11_Witness ==
    /\ Converted
    /\ Len(InputRolls) = 1
    /\ Get(InputRolls[1], "mode", NoMode) = None
    /\ Len(DimLines(convOut.lines)) = 2
    /\ DimLines(convOut.lines)[2].tags = PveOnly

-----------------------------------------------------------------------------
(* Reading the text back *)

StartsWith(t, p) == Len(t) >= Len(p) /\ SubSeq(t, 1, Len(p)) = p

\* the index of the first occurrence of p in t, or 0
Find(t, p) ==
    LET at == {k \in 1..(Len(t) - Len(p) + 1) : SubSeq(t, k, k + Len(p) - 1) = p}
    IN  IF at = {} THEN 0 ELSE CHOOSE k \in at : \A m \in at : k <= m

Before(t, p) == SubSeq(t, 1, Find(t, p) - 1)
After(t, p) == SubSeq(t, Find(t, p) + Len(p), Len(t))

\* the positions of ch in t, in increasing order, followed by Len(t) + 1
Breaks(t, ch) ==
    LET at == {k \in DOMAIN t : t[k] = ch}
    IN  [x \in 1..(Cardinality(at) + 1) |->
            IF x > Cardinality(at) THEN Len(t) + 1
            ELSE CHOOSE k \in at : Cardinality({m \in at : m < k}) = x - 1]

Pieces(t, breaks) ==
    [x \in DOMAIN breaks |->
        SubSeq(t, (IF x = 1 THEN 0 ELSE breaks[x - 1]) + 1, breaks[x] - 1)]

\* t split at every occurrence of the character ch
SplitOn(t, ch) == Pieces(t, Breaks(t, ch))

IsDigits(t) == t # <<>> /\ \A n \in DOMAIN t : t[n] \in Range(Digits)

RECURSIVE ParseInt(_)
ParseInt(t) ==
    IF ~IsDigits(t) THEN -1
    ELSE IF Len(t) = 1 THEN (CHOOSE d \in 0..9 : Digits[d + 1] = t[1])
    ELSE 10 * ParseInt(SubSeq(t, 1, Len(t) - 1)) + ParseInt(<<t[Len(t)]>>)

TagName(t) ==
    IF t = <<"p", "v", "e">> THEN "pve"
    ELSE IF t = <<"p", "v", "p">> THEN "pvp"
    ELSE "?"

ParseInts(parts) == [n \in DOMAIN parts |-> ParseInt(parts[n])]
TagNames(parts) == [n \in DOMAIN parts |-> TagName(parts[n])]

\* the lines of the text returned by convert_to_dim_format
TextLines == SplitOn(convOut.text, "\n")

DimTextLines == SelectSeq(TextLines, LAMBDA t : StartsWith(t, ItemPrefix))

\* the fields of a dimwishlist line, split at '&perks=', '#notes:' and '|tags:'
ItemField(t) == SubSeq(Before(t, PerksDelimiter), Len(ItemPrefix) + 1,
                       Len(Before(t, PerksDelimiter)))
PerksField(t) == Before(After(t, PerksDelimiter), NotesDelimiter)
TagsField(t) == After(After(After(t, PerksDelimiter), NotesDelimiter), TagsDelimiter)

ParseLine(t) ==
    [item |-> ParseInt(ItemField(t)),
     perks |-> ParseInts(SplitOn(PerksField(t), ",")),
     tags |-> TagNames(SplitOn(TagsField(t), ","))]

ParseLines(ts) == [n \in DOMAIN ts |-> ParseLine(ts[n])]
PerkLists(ts) == [n \in DOMAIN ts |-> ParseInts(SplitOn(PerksField(ts[n]), ","))]
Built(ls) ==
    [n \in DOMAIN ls |-> [item |-> ls[n].item, perks |-> ls[n].perks, tags |-> ls[n].tags]]
ItemsAndPerks(ls) == [n \in DOMAIN ls |-> [item |-> ls[n].item, perks |-> ls[n].perks]]
PerksOf(ls) == [n \in DOMAIN ls |-> ls[n].perks]

\* the identifiers of a column's perks that resolve, in the order listed
ResolvedIds(roll, column_key) ==
    LET v == Get(roll, column_key, None)
        ok == IF v.t # "list" THEN <<>>
              ELSE SelectSeq(v.xs, LAMBDA perk :
                       /\ Truthy(perk)
                       /\ perk # JStr("null")
                       /\ lookup_hash(perk, PERK_LOOKUP, DefaultThreshold).h # NoHash)
    IN  [n \in DOMAIN ok |-> lookup_hash(ok[n], PERK_LOOKUP, DefaultThreshold).h]

\* what a column contributes to a line: one of its identifiers, or nothing
Contributions(ids) == IF ids = <<>> THEN << <<>> >> ELSE [n \in DOMAIN ids |-> <<ids[n]>>]

\* barrel outermost, trait2 innermost
NestedLoops(b, m, t1, t2) ==
    Flatten([x1 \in DOMAIN b |->
      Flatten([x2 \in DOMAIN m |->
        Flatten([x3 \in DOMAIN t1 |->
          [x4 \in DOMAIN t2 |-> b[x1] \o m[x2] \o t1[x3] \o t2[x4]]])])])

\* the weapon and perk identifiers of the lines expected for one roll
ExpectedPerks(roll) ==
    IF WeaponHash(roll) = NoHash THEN <<>>
    ELSE LET all == NestedLoops(Contributions(ResolvedIds(roll, "barrel")),
                                Contributions(ResolvedIds(roll, "magazine")),
                                Contributions(ResolvedIds(roll, "trait1")),
                                Contributions(ResolvedIds(roll, "trait2")))
             named == SelectSeq(all, LAMBDA ids : ids # <<>>)
         IN  [n \in DOMAIN named |-> [item |-> WeaponHash(roll), perks |-> named[n]]]

\* C12: the lines of an earlier roll precede those of a later one; within a
\* roll the combinations run with barrel slowest and trait2 fastest, each column
\* in the order listed; and the text of a line gives its identifiers in column
\* order, joined by commas alone, without those of empty columns.
C12_EmissionOrder ==
    Converted =>
        /\ ItemsAndPerks(DimLines(convOut.lines))
             = Flatten([n \in DOMAIN InputRolls |-> ExpectedPerks(InputRolls[n])])
        /\ PerkLists(DimTextLines) = PerksOf(DimLines(convOut.lines))

\* a roll of 1 x 2 x 2 combinations followed by a roll of one combination
C12_Witness ==
    /\ Converted
    /\ Len(InputRolls) = 2
    /\ PerksOf(DimLines(convOut.lines))
         = << <<14, 11, 12>>, <<14, 11, 13>>, <<14, 13, 12>>, <<14, 13, 13>>, <<15, 12>> >>

\* C13: splitting the text of an emitted line at '&perks=', '#notes:',
\* '|tags:' and the commas gives back the weapon identifier, the perk
\* identifiers and the tags the line was built from, whatever the reasoning.
C13_RoundTrip ==
    Converted =>
        ParseLines(DimTextLines) = Built(DimLines(convOut.lines))

\* a line whose reasoning held '|tags:pvp' has been emitted with tag pve
C13_Witness ==
    /\ Converted
    /\ Len(InputRolls) = 1
    /\ Get(InputRolls[1], "reasoning", None)
         = JText(<<"a", "|", "t", "a", "g", "s", ":", "p", "v", "p">>)
    /\ Get(InputRolls[1], "mode", NoMode) = JStr("PvE")
    /\ Len(DimTextLines) = 2
    /\ ParseLine(DimTextLines[1]).tags = PveOnly

-----------------------------------------------------------------------------
(* The structure of the text *)

\* a line of the exact form dimwishlist:item=<id>&perks=<ids>#notes:<note>|tags:<tags>
WellFormed(t) ==
    /\ StartsWith(t, ItemPrefix)
    /\ Find(t, PerksDelimiter) # 0
    /\ Find(After(t, PerksDelimiter), NotesDelimiter) # 0
    /\ Find(After(After(t, PerksDelimiter), NotesDelimiter), TagsDelimiter) # 0
    /\ IsDigits(ItemField(t))
    /\ \A n \in DOMAIN SplitOn(PerksField(t), ",") :
          IsDigits(SplitOn(PerksField(t), ",")[n])
    /\ \A n \in DOMAIN TagNames(SplitOn(TagsField(t), ",")) :
          TagNames(SplitOn(TagsField(t), ","))[n] \in {"pve", "pvp"}

LineKind(t) ==
    IF t = <<>> THEN "blank"
    ELSE IF StartsWith(t, TitlePrefix) THEN "title"
    ELSE IF StartsWith(t, DescriptionPrefix) THEN "description"
    ELSE IF StartsWith(t, CommentPrefix) THEN "notes"
    ELSE IF WellFormed(t) THEN "dimwishlist"
    ELSE "other"

Shape(ts) == [n \in DOMAIN ts |-> LineKind(ts[n])]

\* the block of one roll: nothing for an unknown weapon
BlockShape(roll) ==
    IF WeaponHash(roll) = NoHash THEN <<>>
    ELSE <<"notes">> \o [n \in DOMAIN ExpectedPerks(roll) |-> "dimwishlist"] \o <<"blank">>

ExpectedShape(rolls) ==
    <<"title", "description", "blank">>
    \o Flatten([n \in DOMAIN rolls |-> BlockShape(rolls[n])])

\* C14: the text is title, description and a blank line, followed by one
\* block per roll with a resolved weapon, in input order: a //notes: line, the
\* roll's well-formed dimwishlist lines, a blank line; and nothing else.
C14_Structure ==
    Converted =>
        /\ Shape(TextLines) = ExpectedShape(InputRolls)
        /\ TextLines[1] = TitlePrefix \o <<WishlistName>>
        /\ TextLines[2] = DescriptionPrefix \o <<Description>>

\* the structure as far as it holds: rolls whose mode holds no line break
StructureOfSingleLineModes ==
    (Converted /\ \A n \in DOMAIN InputRolls :
                     Get(InputRolls[n], "mode", NoMode) # LineBreakMode) =>
        /\ Shape(TextLines) = ExpectedShape(InputRolls)
        /\ TextLines[1] = TitlePrefix \o <<WishlistName>>
        /\ TextLines[2] = DescriptionPrefix \o <<Description>>

-----------------------------------------------------------------------------
(* The backoff of call_gemini *)

DefaultWaits == <<15, 30, 45, 60, 75>>

\* C15: the wait after the k-th rate-limited attempt is base_wait * k; the
\* exhausted sentinel is returned exactly when all five attempts were
\* rate-limited, and then after all five waits (15 * base_wait in total); it
\* differs from the not-found and the other-error sentinel.
C15_Backoff ==
    /\ [](/\ pc = "call" => 2 * waited = base_wait * invocations * (invocations + 1)
          /\ pc = "ret" =>
                /\ response = ExhaustedSentinel
                      <=> (invocations = max_retries /\ RateLimitSignal(lastOutcome))
                /\ response = ExhaustedSentinel => waited = 15 * base_wait
          /\ ExhaustedSentinel \notin {NotFoundSentinel, ErrorSentinel})
    /\ [][(pc = "call" /\ RateLimitSignal(lastOutcome')) =>
             /\ waited' - waited = base_wait * invocations'
             /\ waited' - waited = DefaultWaits[invocations']]_vars

\* the fifth rate limit has been waited for and the call has given up
C15_Witness ==
    /\ pc = "ret"
    /\ response = ExhaustedSentinel
    /\ attempt = 5
    /\ waited = 225

-----------------------------------------------------------------------------
(* The paths of analyze_transcript *)

\* a response that is empty or cannot be parsed, an error sentinel included
EmptyOrUnparseable(text) ==
    \/ text \in Sentinels
    \/ text = GarbageText
    \/ ~Truthy(parse_gemini_response(text))

\* C16: without perk-pool data analyze_transcript makes exactly one call,
\* the unconstrained one; after an empty or unparseable pass-1 response it
\* makes exactly two, pass 1 and the unconstrained one; in both cases no
\* constrained call is made and the result is the raw output of the
\* unconstrained call.
C16_DirectFallback ==
    /\ [](/\ (pc \in {"call", "ret", "cand", "post"} /\ ~poolsLoaded) =>
                /\ calls = <<"single">>
                /\ pc \in {"call", "ret"} => prompt = GodRollPrompt
          /\ (pc = "post" /\ "fallback_pass1" \in Range(calls)) =>
                calls = <<"pass1", "fallback_pass1">>)
    /\ [][/\ (pc = "ret" /\ callKind = "pass1" /\ EmptyOrUnparseable(response)) =>
                /\ pc' = "call"
                /\ prompt' = GodRollPrompt
                /\ calls' = <<"pass1", "fallback_pass1">>
          /\ (pc = "ret" /\ callKind \in {"single", "fallback_pass1"}) =>
                /\ pc' = "post"
                /\ raw_response' = response
                /\ calls' = calls]_vars

\* pass 1 gave an error sentinel and the unconstrained call a list of rolls
C16_Witness ==
    /\ pc = "post"
    /\ poolsLoaded
    /\ calls = <<"pass1", "fallback_pass1">>
    /\ i \in failedCalls
    /\ raw_response = JsonText(JList(<<GoodRoll>>))


\* the roll records a response holds
ReturnedRecords(text) ==
    LET v == parse_gemini_response(text)
    IN  IF v.t = "list" THEN SelectSeq(v.xs, LAMBDA r : r.t = "obj")
        ELSE IF v.t = "obj" THEN <<v>>
        ELSE <<>>

\* the record names the candidate's weapon, ignoring case
NamesWeapon(roll, weapon_name) ==
    /\ Get(roll, "weapon", JStr("")).t = "str"
    /\ LowerOnly(Get(roll, "weapon", JStr("")).s) = LowerOnly(weapon_name.s)

KeptRecords(text, weapon_name) ==
    SelectSeq(ReturnedRecords(text), LAMBDA r : NamesWeapon(r, weapon_name))

PoolMiss ==
    /\ pc = "cand"
    /\ j <= Len(weapons)
    /\ Truthy(Get(weapons[j], "weapon", JStr("")))
    /\ ~get_valid_perks_for_weapon(Get(weapons[j], "weapon", JStr("")).s).found

\* C17: a candidate without a perk pool gets exactly one call, with
\* GOD_ROLL_PROMPT; of the records it returns exactly those that name the
\* candidate's weapon, ignoring case, are accumulated, in their order; then
\* the next candidate is taken.
C17_PoolMiss ==
    [][/\ PoolMiss =>
             /\ pc' = "call"
             /\ callKind' = "miss"
             /\ prompt' = GodRollPrompt
             /\ calls' = Append(calls, "miss")
       /\ (pc = "ret" /\ callKind = "miss") =>
             /\ pc' = "cand"
             /\ j' = j + 1
             /\ calls' = calls
             /\ all_rolls' = all_rolls \o KeptRecords(response, weapons[j].f.weapon)]_vars

\* the pool-miss path as far as it holds: the steps that do not raise
PoolMissWhenReturning ==
    [][/\ PoolMiss =>
             /\ pc' = "call"
             /\ callKind' = "miss"
             /\ prompt' = GodRollPrompt
             /\ calls' = Append(calls, "miss")
       /\ (pc = "ret" /\ callKind = "miss" /\ pc' # "crashed") =>
             /\ pc' = "cand"
             /\ j' = j + 1
             /\ calls' = calls
             /\ all_rolls' = all_rolls \o KeptRecords(response, weapons[j].f.weapon)]_vars

-----------------------------------------------------------------------------
(* The pass-2 prompt as a function of the valid perks *)

MaxPoolLen == 22

\* display names p1, p2, ... of a pool column
PerkDisplayName(n) == <<"p", n>>

NamesUpTo(n) == [k \in 1..n |-> PerkDisplayName(k)]

\* what get_valid_perks_for_weapon returns on a hit
ValidPerkSets ==
    {[found |-> TRUE, barrels |-> NamesUpTo(b), magazines |-> NamesUpTo(m),
      trait1 |-> NamesUpTo(t1), trait2 |-> NamesUpTo(t2), origin |-> <<>>] :
        b \in {0, MaxPoolLen}, m \in {0, 1},
        t1 \in 0..MaxPoolLen, t2 \in 0..MaxPoolLen}

PromptInput(valid_perks) == [k |-> "valid_perks", valid_perks |-> valid_perks]

InitPrompt ==
    /\ HAS_FUZZY \in BOOLEAN
    /\ poolsLoaded = TRUE
    /\ videos = <<1>>
    /\ start_index = 0
    /\ RunIdle
    /\ convIn \in {PromptInput(valid_perks) : valid_perks \in ValidPerkSets}
    /\ convOut = ConvIdle

\* lines 469-476 for the valid perks given
BuildPrompt ==
    /\ convIn # ConvIdle
    /\ convOut = ConvIdle
    /\ convOut' = ConstrainedPrompt(JStr("Solemn Remembrance"), JStr("PvE"),
                                    convIn.valid_perks)
    /\ UNCHANGED <<cfgVars, runVars, convIn>>

SpecPrompt == InitPrompt /\ [][BuildPrompt]_vars

PromptBuilt == convOut # ConvIdle

\* the first 20 names of a list, or all of them
FirstTwenty(names) ==
    [k \in 1..(IF Len(names) <= 20 THEN Len(names) ELSE 20) |-> names[k]]

\* the names a prompt list puts before the model
Listed(names) == IF names = <<"N/A">> THEN <<>> ELSE names

\* C18: for barrel, magazine, trait1 and trait2 the prompt lists exactly
\* the first 20 display names of the column, in pool order, and no other name.
C18_PromptCap ==
    PromptBuilt =>
        /\ Listed(convOut.barrels) = FirstTwenty(convIn.valid_perks.barrels)
        /\ Listed(convOut.magazines) = FirstTwenty(convIn.valid_perks.magazines)
        /\ Listed(convOut.trait1) = FirstTwenty(convIn.valid_perks.trait1)
        /\ Listed(convOut.trait2) = FirstTwenty(convIn.valid_perks.trait2)

\* a column of 22 names of which the prompt shows 20, and one of 20 shown whole
C18_Witness ==
    /\ PromptBuilt
    /\ Len(convIn.valid_perks.trait1) = 22
    /\ Len(convIn.valid_perks.trait2) = 20
    /\ Len(convOut.trait1) = 20
    /\ Len(convOut.trait2) = 20
    /\ PerkDisplayName(21) \notin Range(convOut.trait1)

-----------------------------------------------------------------------------
(* A model that is not found *)

\* C19: once a pass-2 call for a transcript has returned the not-found
\* sentinel, no call is issued for the candidates that remain.
C19_NotFoundFatal ==
    (pc = "call" /\ callKind \in {"pass2", "miss"}) => ~notFoundSeen

-----------------------------------------------------------------------------
(* lookup_hash as a function of its arguments *)

LookupNames ==
    {None, JStr(""), JStr(" "), JStr("Solemn Remembrance"), JStr("SOLEMN REMEMBRANCE"),
     JStr("Solemn Remembrence"), JStr("The Martlet"), JStr("Mystery Gun"),
     JStr("Headstone"), JStr(" Headstone "), JStr("Head Stone"), JStr("Firefly"),
     JStr("Bogus Perk")}

EmptyTable == <<>>

LookupTables == {WEAPON_LOOKUP, PERK_LOOKUP, EmptyTable}

LookupThresholds == {30, 75, 94, 95, 100}

LookupInput(name, lookup_dict, threshold) ==
    [k |-> "lookup", name |-> name, lookup_dict |-> lookup_dict, threshold |-> threshold]

InitLookup ==
    /\ HAS_FUZZY \in BOOLEAN
    /\ poolsLoaded = TRUE
    /\ videos = <<1>>
    /\ start_index = 0
    /\ RunIdle
    /\ convIn \in {LookupInput(name, lookup_dict, threshold) :
                      name \in LookupNames, lookup_dict \in LookupTables,
                      threshold \in LookupThresholds}
    /\ convOut = ConvIdle

\* two calls of lookup_hash with the same arguments
Lookup ==
    /\ convIn # ConvIdle
    /\ convOut = ConvIdle
    /\ convOut' = [k |-> "looked up",
                   first |-> lookup_hash(convIn.name, convIn.lookup_dict,
                                         convIn.threshold),
                   second |-> lookup_hash(convIn.name, convIn.lookup_dict,
                                          convIn.threshold)]
    /\ UNCHANGED <<cfgVars, runVars, convIn>>

SpecLookup == InitLookup /\ [][Lookup]_vars

LookedUp == convOut # ConvIdle

\* the lower-cased, trimmed name
Normalised(name) == Lower(name.s)

\* the best similarity score of n over the keys of a table
BestScore(n, table) ==
    CHOOSE s \in {token_sort_ratio(n, key) : key \in DOMAIN table} :
        \A key \in DOMAIN table : token_sort_ratio(n, key) <= s

BestKeys(n, table) ==
    {key \in DOMAIN table : token_sort_ratio(n, key) = BestScore(n, table)}

Absent == [h |-> NoHash, exact |-> FALSE]

\* the results the reference resolver allows
Reference(name, table, threshold) ==
    IF ~Truthy(name) THEN {Absent}
    ELSE IF Normalised(name) \in DOMAIN table
    THEN {[h |-> table[Normalised(name)], exact |-> TRUE]}
    ELSE IF HAS_FUZZY /\ DOMAIN table # {}
            /\ BestScore(Normalised(name), table) >= threshold
    THEN {[h |-> table[key], exact |-> FALSE] : key \in BestKeys(Normalised(name), table)}
    ELSE {Absent}

Answer(r) == [h |-> r.h, exact |-> r.exact]

\* the score of the key whose identifier was returned
ScoreOfReturned(n, table, h) ==
    CHOOSE s \in {token_sort_ratio(n, key) : key \in {x \in DOMAIN table : table[x] = h}} :
        TRUE

\* C20: lookup_hash returns what the reference resolver returns: the exact
\* entry of the normalised name if there is one; else, with fuzzy matching,
\* the entry of the best-scoring key if that score reaches the threshold; else
\* nothing.  A fuzzy answer never scores below the threshold, a second call
\* gives the same answer, and without fuzzy matching only exact keys resolve.
C20_Resolver ==
    LookedUp =>
        /\ ~convOut.first.raised
        /\ Answer(convOut.first)
             \in Reference(convIn.name, convIn.lookup_dict, convIn.threshold)
        /\ convOut.second = convOut.first
        /\ (convOut.first.h # NoHash /\ ~convOut.first.exact) =>
              ScoreOfReturned(Normalised(convIn.name), convIn.lookup_dict,
                              convOut.first.h) >= convIn.threshold
        /\ (~HAS_FUZZY /\ Truthy(convIn.name)) =>
              (convOut.first.h # NoHash
                  <=> Normalised(convIn.name) \in DOMAIN convIn.lookup_dict)

\* a misspelt name resolved at a threshold equal to its score
C20_Witness ==
    /\ LookedUp
    /\ HAS_FUZZY
    /\ convIn.name = JStr("Solemn Remembrence")
    /\ convIn.threshold = 94
    /\ convOut.first.h = 101
    /\ ~convOut.first.exact

-----------------------------------------------------------------------------
(* The review items of convert_to_dim_format *)

\* the entries of a column
Entries(roll, column_key) ==
    IF Get(roll, column_key, None).t = "list" THEN Get(roll, column_key, None).xs
    ELSE <<>>

\* the entries that are a name: non-empty strings
ListedNames(roll, column_key) ==
    SelectSeq(Entries(roll, column_key), LAMBDA e : e.t = "str" /\ e.s # "")

\* the entries that are a name other than the literal 'null'
ListedPerkNames(roll, column_key) ==
    SelectSeq(ListedNames(roll, column_key), LAMBDA e : e # JStr("null"))

\* the review items one name calls for, whatever else is listed
ItemsOfName(name, r) ==
    IF r.h = NoHash THEN <<UnknownPerk(name)>>
    ELSE IF ~r.exact THEN <<FuzzyPerk(name)>>
    ELSE <<>>

ItemsOfNames(names) ==
    Flatten([n \in DOMAIN names |->
                ItemsOfName(names[n], lookup_hash(names[n], PERK_LOOKUP, DefaultThreshold))])

ItemsOfWeapon(weapon_name, w) ==
    IF w.h = NoHash THEN <<UnknownWeapon(weapon_name)>>
    ELSE IF ~w.exact THEN <<FuzzyWeapon(weapon_name)>>
    ELSE <<>>

\* the review items expected of a roll, given the names of its four columns
ItemsOfRoll(roll, b, m, t1, t2) ==
    ItemsOfWeapon(Get(roll, "weapon", JStr("")),
                  lookup_hash(Get(roll, "weapon", JStr("")), WEAPON_LOOKUP,
                              DefaultThreshold))
    \o (IF WeaponHash(roll) = NoHash THEN <<>>
        ELSE ItemsOfNames(b) \o ItemsOfNames(m) \o ItemsOfNames(t1) \o ItemsOfNames(t2))

\* C21 as stated: every listed name is resolved on its own; an unresolved
\* name adds one review item and no identifier, a fuzzy one adds one review
\* item and keeps its identifier, an exact one adds none; a fuzzy weapon adds
\* one review item and the roll is still converted.
C21_PerPerk ==
    Converted =>
        /\ convOut.uncertain
             = Flatten([n \in DOMAIN InputRolls |->
                   ItemsOfRoll(InputRolls[n],
                               ListedNames(InputRolls[n], "barrel"),
                               ListedNames(InputRolls[n], "magazine"),
                               ListedNames(InputRolls[n], "trait1"),
                               ListedNames(InputRolls[n], "trait2"))])
        /\ ItemsAndPerks(DimLines(convOut.lines))
             = Flatten([n \in DOMAIN InputRolls |-> ExpectedPerks(InputRolls[n])])

\* C21 amended: the same for every listed name other than the literal
\* 'null', which is passed over like an empty entry, without a review item.
C21_PerPerkExceptNull ==
    Converted =>
        /\ convOut.uncertain
             = Flatten([n \in DOMAIN InputRolls |->
                   ItemsOfRoll(InputRolls[n],
                               ListedPerkNames(InputRolls[n], "barrel"),
                               ListedPerkNames(InputRolls[n], "magazine"),
                               ListedPerkNames(InputRolls[n], "trait1"),
                               ListedPerkNames(InputRolls[n], "trait2"))])
        /\ ItemsAndPerks(DimLines(convOut.lines))
             = Flatten([n \in DOMAIN InputRolls |-> ExpectedPerks(InputRolls[n])])

\* a misspelt weapon with an unknown and a known barrel and a misspelt trait
C21_Witness ==
    /\ Converted
    /\ HAS_FUZZY
    /\ Len(InputRolls) = 1
    /\ Get(InputRolls[1], "weapon", None) = JStr("Solemn Remembrence")
    /\ convOut.uncertain
         = <<FuzzyWeapon(JStr("Solemn Remembrence")), UnknownPerk(JStr("Bogus Perk")),
             FuzzyPerk(JStr("Head Stone"))>>
    /\ PerksOf(DimLines(convOut.lines)) = << <<14, 11>> >>

-----------------------------------------------------------------------------
(* get_valid_perks_for_weapon as a function of the name *)

PoolQueries ==
    {"Solemn Remembrance", "SOLEMN REMEMBRANCE", "solemn remembrance",
     " Solemn Remembrance ", "Solemn Remembrence", "The Martlet", "THE MARTLET",
     "the martlet", "Mystery Gun", "mystery gun", "mystery gun ", "Headstone",
     "Head Stone", "Firefly", "Demolitionist", "Arrowhead Brake", "Accurized Rounds",
     "Bogus Perk", " "}

PoolQuery(weapon_name) == [k |-> "pool query", weapon_name |-> weapon_name]

InitPool ==
    /\ HAS_FUZZY \in BOOLEAN
    /\ poolsLoaded \in BOOLEAN
    /\ videos = <<1>>
    /\ start_index = 0
    /\ RunIdle
    /\ convIn \in {PoolQuery(weapon_name) : weapon_name \in PoolQueries}
    /\ convOut = ConvIdle

LookupPool ==
    /\ convIn # ConvIdle
    /\ convOut = ConvIdle
    /\ convOut' = [k |-> "pool", pool |-> get_valid_perks_for_weapon(convIn.weapon_name)]
    /\ UNCHANGED <<cfgVars, runVars, convIn>>

SpecPool == InitPool /\ [][LookupPool]_vars

PoolLookedUp == convOut # ConvIdle

\* the display names of the identifiers that have a name, in pool order
KnownNames(ids) ==
    LET known == SelectSeq(ids, LAMBDA h : h \in DOMAIN PERK_NAMES)
    IN  [n \in DOMAIN known |-> PERK_NAMES[known[n]]]

NamedPool(h) ==
    [found |-> TRUE,
     barrels |-> KnownNames(WEAPON_PERK_POOLS[h].barrels),
     magazines |-> KnownNames(WEAPON_PERK_POOLS[h].magazines),
     trait1 |-> KnownNames(WEAPON_PERK_POOLS[h].trait1),
     trait2 |-> KnownNames(WEAPON_PERK_POOLS[h].trait2),
     origin |-> KnownNames(WEAPON_PERK_POOLS[h].origin)]

\* the best score of query over the lower-cased display names of the pools
BestPoolScore(query) ==
    CHOOSE s \in {token_sort_ratio(query, LowerOnly(WEAPON_PERK_POOLS[h].name)) :
                     h \in DOMAIN WEAPON_PERK_POOLS} :
        \A h \in DOMAIN WEAPON_PERK_POOLS :
            token_sort_ratio(query, LowerOnly(WEAPON_PERK_POOLS[h].name)) <= s

\* the pools the reference allows, same being the pools whose name is the
\* name asked for
ReferencePools(same, query) ==
    IF same # {} THEN {NamedPool(h) : h \in same}
    ELSE IF HAS_FUZZY /\ DOMAIN WEAPON_PERK_POOLS # {} /\ BestPoolScore(query) >= 75
    THEN {NamedPool(h) : h \in {x \in DOMAIN WEAPON_PERK_POOLS :
            token_sort_ratio(query, LowerOnly(WEAPON_PERK_POOLS[x].name))
                = BestPoolScore(query)}}
    ELSE {NoPool}

-----------------------------------------------------------------------------
(* The note of a dimwishlist line *)

ReasoningOf(roll) == Get(roll, "reasoning", JText(<<>>)).cs

\* the note the wishlist format asks for: the reasoning, or its first 100
\* characters and three dots, without line breaks and separators
ExpectedNote(reasoning) ==
    [n \in 1..(IF Len(reasoning) <= 100 THEN Len(reasoning) ELSE 103) |->
        IF n > 100 THEN "."
        ELSE IF reasoning[n] = "\n" THEN " "
        ELSE IF reasoning[n] = "|" THEN "-"
        ELSE reasoning[n]]

NotesOf(lines) == {lines[n].note : n \in DOMAIN lines}

\* C23: the note of every dimwishlist line is the reasoning of its roll when
\* that has at most 100 characters, else its first 100 characters and '...',
\* with every line break replaced by a space and every '|' by '-'; it holds
\* no line break and no '|' and has at most 103 characters.
C23_NoteText ==
    Converted =>
        /\ NotesOf(DimLines(convOut.lines))
              \subseteq {ExpectedNote(ReasoningOf(InputRolls[n])) : n \in DOMAIN InputRolls}
        /\ \A note \in NotesOf(DimLines(convOut.lines)) :
              /\ Len(note) <= 103
              /\ \A n \in DOMAIN note : note[n] \notin {"\n", "|"}

\* a reasoning of 101 characters with a '|' and a line break has given lines
\* whose note has 103 characters, a '-' in place of the '|' and three dots
\* in place of the line break
C23_Witness ==
    /\ Converted
    /\ Len(InputRolls) = 1
    /\ ReasoningOf(InputRolls[1]) = LongReasoning
    /\ Len(DimLines(convOut.lines)) = 2
    /\ Len(DimLines(convOut.lines)[2].note) = 103
    /\ DimLines(convOut.lines)[2].note[50] = "-"
    /\ SubSeq(DimLines(convOut.lines)[2].note, 100, 103) = <<"x", ".", ".", ".">>

-----------------------------------------------------------------------------
(* The delay between videos *)

\* the videos processed so far: those of index start_index and above that
\* the loop has left behind
Processed == IF i > start_index THEN i - start_index ELSE 0

\* C24: when the processing of the next video is about to begin, every
\* processed video before it has been followed by the fixed delay, whether
\* it yielded rolls, yielded none, had no transcript or ended in an
\* extraction or parse error.
C24_DelayAfterEachVideo ==
    (pc = "loop" /\ i < Len(videos)) => sleeps >= Processed

-----------------------------------------------------------------------------
(* The calls of one transcript *)

CallsOfKind(kinds) == Len(SelectSeq(calls, LAMBDA c : c \in kinds))

\* the candidates the loop of line 443 has reached that have a weapon name
NamedReached ==
    Cardinality({n \in DOMAIN weapons :
                    n <= j /\ Truthy(Get(weapons[n], "weapon", JStr("")))})

\* C25: with N candidates from pass 1, analyze_transcript issues at most
\* N + 2 calls: one for pass 1, at most one for each candidate reached that
\* has a weapon name and none for the others, and at most one final
\* fallback, issued only when no record was accumulated; a call makes at
\* most 5 invocations, so a transcript costs at most 5 * (N + 2); a call is
\* issued only when no call is in progress.
C25_Traffic ==
    /\ [](/\ Len(calls) <= Len(weapons) + 2
          /\ CallsOfKind({"single", "pass1"}) <= 1
          /\ CallsOfKind({"miss", "pass2"}) <= NamedReached
          /\ CallsOfKind({"fallback_pass1", "fallback_final"}) <= 1
          /\ "fallback_final" \in Range(calls) =>
                /\ all_rolls = <<>>
                /\ calls[Len(calls)] = "fallback_final"
          /\ calls # <<>> =>
                max_retries * (Len(calls) - 1) + invocations
                    <= max_retries * (Len(weapons) + 2))
    /\ [][calls' # calls => pc # "call"]_vars

\* two candidates have cost four calls: pass 1, one call each, and the
\* final fallback, which has used its five invocations
C25_Witness ==
    /\ Len(weapons) = 2
    /\ calls = <<"pass1", "pass2", "miss", "fallback_final">>
    /\ invocations = max_retries

====
